---- MODULE Spec2Model ----
(***************************************************************************)
(* Gatekeeper firmware core: event processor, table-driven FSM engine,     *)
(* coordinator (top / mode / menu FSMs, event routing, menu timeout),      *)
(* mode handlers and the settings store.                                   *)
(*                                                                         *)
(* One step of the model is one iteration of the tick loop, preceded by    *)
(* the iterations before it that change nothing but the time: the timer    *)
(* advances, the inputs are sampled and coordinator_update runs to its     *)
(* end.  p_hal->millis() returns the same value for every call made        *)
(* inside one coordinator_update, as it does with the mock HAL.            *)
(***************************************************************************)
EXTENDS Integers, Sequences, FiniteSets, TLC

VARIABLES
    now,          \* p_hal->millis(): uint32_t millisecond counter
    coord,        \* the Coordinator struct
    settings,     \* the AppSettings record the coordinator points to
    eeprom,       \* non-volatile byte store, address -> byte
    event,        \* Event returned by event_processor_update on the last tick
    offers,       \* FSM dispatches made by the last coordinator_update
    input_state,  \* input handed to mode_handler_process on the last tick
    gesture,      \* history of button A's current press (observation only)
    prior,        \* what the last tick started from (observation only)
    ticks,        \* number of steps of the loop so far (bounds the exploration)
    init_result,  \* AppInitResult returned by app_init_run
    ops,          \* names of the operations run so far (observation only)
    reset,        \* app_init_check_factory_reset: its locals and its position
    cv_in,        \* a CVInput on its own, with the samples fed and levels read
    button,       \* a Button on its own, with its value before the last update
    cv_output,    \* a CVOutput on its own, with the edge that began its pulse
    machine,      \* an FSM with callbacks, with its last operation and calls
    unwrapped,    \* the device fed the same inputs far from the timer's wrap
    wdt,          \* the watchdog, with the feeds of the loop's last iteration
    shared,       \* g_coord, two coordinators and the update being executed
    led,          \* an LEDFeedbackController with the descriptor last given
    api           \* the objects behind the public calls, with the last call

(* The variables the tick loop leaves alone. *)
components ==
    <<reset, cv_in, button, cv_output, machine, unwrapped, wdt, shared, led,
      api>>

libvars == <<init_result, ops, components>>

vars ==
    <<now, coord, settings, eeprom, event, offers, input_state, gesture, prior,
      ticks, init_result, ops, components>>

-----------------------------------------------------------------------------
(* Bounds of the exploration *)

(* Steps of the tick loop explored with buttons and CV input both free.    *)
MaxTicks == 6

(* Steps of the tick loop explored with the CV input held low.             *)
MaxQuietTicks == 7
MaxModeTicks == 4
MaxMenuTicks == 3

(* Operations on the settings store explored after power-up.               *)
MaxStoreSteps == 3

(* ADC samples offered to the CV input by the tick loop: one below the low *)
(* threshold, one above the high threshold.                                *)
AdcSamples == {20, 200}

(* The ADC samples of a CV input that is held low.                         *)
QuietSamples == {20}

-----------------------------------------------------------------------------
(* Program constants *)

EP_HOLD_THRESHOLD_MS == 500
TAP_TIMEOUT_MS == 500
TAPS_TO_CHANGE == 5
HOLD_TIME_MS == 1000
EDGE_DEBOUNCE_MS == 5
PULSE_DURATION_MS == 10
APP_INIT_RESET_HOLD_MS == 3000
APP_INIT_RESET_POLL_MS == 50
APP_INIT_RESET_BLINK_MS == 100
APP_INIT_RESET_MAX_ITERATIONS == (APP_INIT_RESET_HOLD_MS \div APP_INIT_RESET_POLL_MS) + 20
MENU_TIMEOUT_MS == 60000
CV_DEFAULT_HIGH_THRESHOLD == 128
CV_DEFAULT_LOW_THRESHOLD == 77

TOP_PERFORM == 0
TOP_MENU == 1

MODE_GATE == 0
MODE_TRIGGER == 1
MODE_TOGGLE == 2
MODE_DIVIDE == 3
MODE_CYCLE == 4
MODE_COUNT == 5

PAGE_GATE_CV == 0
PAGE_TRIGGER_BEHAVIOR == 1
PAGE_TRIGGER_PULSE_LEN == 2
PAGE_TOGGLE_BEHAVIOR == 3
PAGE_DIVIDE_DIVISOR == 4
PAGE_CYCLE_PATTERN == 5
PAGE_CV_GLOBAL == 6
PAGE_MENU_TIMEOUT == 7
PAGE_COUNT == 8

FSM_NO_TRANSITION == 255
FSM_ANY_STATE == 254

TRIGGER_PULSE_COUNT == 4
TRIGGER_EDGE_COUNT == 3
DIVIDE_DIVISOR_COUNT == 4
CYCLE_TEMPO_COUNT == 5
TOGGLE_EDGE_COUNT == 2
GATE_A_MODE_MANUAL == 1
GATE_A_MODE_COUNT == 2
OUTPUT_PULSE_MS == 10

EEPROM_MAGIC_ADDR == 0
EEPROM_SCHEMA_ADDR == 2
EEPROM_SETTINGS_ADDR == 3
EEPROM_CHECKSUM_ADDR == 16
EEPROM_MAGIC_VALUE == 18251
SETTINGS_SCHEMA_VERSION == 2
APP_SETTINGS_SIZE == 8

(* AppInitResult *)
APP_INIT_OK == "APP_INIT_OK"
APP_INIT_OK_DEFAULTS == "APP_INIT_OK_DEFAULTS"
APP_INIT_OK_FACTORY_RESET == "APP_INIT_OK_FACTORY_RESET"

(* Event enumeration (lib/events/events.h) *)
EVT_NONE == "NONE"
EVT_A_PRESS == "A_PRESS"
EVT_B_PRESS == "B_PRESS"
EVT_CV_RISE == "CV_RISE"
EVT_CV_FALL == "CV_FALL"
EVT_A_TAP == "A_TAP"
EVT_A_RELEASE == "A_RELEASE"
EVT_B_TAP == "B_TAP"
EVT_B_RELEASE == "B_RELEASE"
EVT_A_HOLD == "A_HOLD"
EVT_B_HOLD == "B_HOLD"
EVT_MENU_TOGGLE == "MENU_TOGGLE"
EVT_MODE_NEXT == "MODE_NEXT"
EVT_TIMEOUT == "TIMEOUT"

-----------------------------------------------------------------------------
(* Unsigned timer arithmetic.  The counter is a uint32_t; the model keeps  *)
(* its wrap-around arithmetic on a counter of 30 bits, the widest whose    *)
(* sums and differences stay inside the checker's integers.                *)

TimerModulus == 2 ^ 30

Sub32(x, y) == (x - y) % TimerModulus

Add32(x, y) == (x + y) % TimerModulus

-----------------------------------------------------------------------------
(* Event processor (src/src/events/events.c, lines 1-171) *)

EventProcessorInit ==
    [ a_pressed |-> FALSE, a_last |-> FALSE, a_hold |-> FALSE,
      b_pressed |-> FALSE, b_last |-> FALSE, b_hold |-> FALSE,
      cv_state |-> FALSE, cv_last |-> FALSE,
      compound_fired |-> FALSE, b_touched |-> FALSE,
      a_press_time |-> 0, b_press_time |-> 0 ]

(* Variant of HoldReached with a strict comparison.                        *)
HoldReached_strict(t, press_time) ==
    Sub32(t, press_time) > EP_HOLD_THRESHOLD_MS

(* now - press_time >= EP_HOLD_THRESHOLD_MS, in uint32_t *)
HoldReached(t, press_time) == Sub32(t, press_time) >= EP_HOLD_THRESHOLD_MS

(* Lines 27-30: latch the sampled inputs into the status word. *)
EpLatchInputs(e, a, b, cv) ==
    [e EXCEPT !.a_pressed = a, !.b_pressed = b, !.cv_state = cv]

(* Variant of AReleaseAfterHold that does not look at the B-touched flag.  *)
AReleaseAfterHold_ignores_b_touched(e) ==
    IF ~e.compound_fired THEN EVT_MODE_NEXT ELSE EVT_A_RELEASE

(* Variant of AReleaseAfterHold that reports every release after a hold   *)
(* as a solo hold.                                                         *)
AReleaseAfterHold_always_mode_next(e) == EVT_MODE_NEXT

(* Variant of AReleaseAfterHold that reports every release after a hold   *)
(* as a plain release.                                                     *)
AReleaseAfterHold_plain_release(e) == EVT_A_RELEASE

(* Lines 50-57: event of an A release that follows a latched hold. *)
AReleaseAfterHold(e) ==
    IF ~e.b_touched /\ ~e.compound_fired THEN EVT_MODE_NEXT ELSE EVT_A_RELEASE

(* Variant of EpStageA that neither latches nor reports the hold while B   *)
(* is pressed.                                                             *)
EpStageA_no_silent_latch(e, t) ==
    IF e.a_pressed /\ ~e.a_last
    THEN [ ep |-> [e EXCEPT !.a_press_time = t, !.a_hold = FALSE,
                            !.b_touched = FALSE],
           event |-> EVT_A_PRESS ]
    ELSE IF ~e.a_pressed /\ e.a_last
    THEN [ ep |-> [e EXCEPT !.a_hold = FALSE],
           event |-> IF ~e.a_hold THEN EVT_A_TAP ELSE AReleaseAfterHold(e) ]
    ELSE IF e.a_pressed /\ ~e.a_hold
    THEN IF HoldReached(t, e.a_press_time) /\ ~e.b_pressed
         THEN [ ep |-> [e EXCEPT !.a_hold = TRUE], event |-> EVT_A_HOLD ]
         ELSE [ ep |-> e, event |-> EVT_NONE ]
    ELSE [ ep |-> e, event |-> EVT_NONE ]

(* Lines 32-72: button A edge and hold detection.  r = [ep, event]. *)
EpStageA(e, t) ==
    IF e.a_pressed /\ ~e.a_last
    THEN [ ep |-> [e EXCEPT !.a_press_time = t, !.a_hold = FALSE,
                            !.b_touched = FALSE],
           event |-> EVT_A_PRESS ]
    ELSE IF ~e.a_pressed /\ e.a_last
    THEN [ ep |-> [e EXCEPT !.a_hold = FALSE],
           event |-> IF ~e.a_hold THEN EVT_A_TAP ELSE AReleaseAfterHold(e) ]
    ELSE IF e.a_pressed /\ ~e.a_hold
    THEN IF HoldReached(t, e.a_press_time)
         THEN [ ep |-> [e EXCEPT !.a_hold = TRUE],
                event |-> IF ~e.b_pressed THEN EVT_A_HOLD ELSE EVT_NONE ]
         ELSE [ ep |-> e, event |-> EVT_NONE ]
    ELSE [ ep |-> e, event |-> EVT_NONE ]

(* Lines 74-111: button B edge and hold detection; B only sets the event   *)
(* when stage A left it at EVT_NONE.                                       *)
EpStageB(r, t) ==
    LET e == r.ep IN
    IF e.b_pressed /\ ~e.b_last
    THEN [ ep |-> [e EXCEPT !.b_press_time = t, !.b_hold = FALSE,
                            !.b_touched = IF e.a_hold THEN TRUE ELSE @],
           event |-> IF r.event = EVT_NONE THEN EVT_B_PRESS ELSE r.event ]
    ELSE IF ~e.b_pressed /\ e.b_last
    THEN [ ep |-> [e EXCEPT !.b_hold = FALSE],
           event |-> IF r.event = EVT_NONE
                     THEN (IF ~e.b_hold THEN EVT_B_TAP ELSE EVT_B_RELEASE)
                     ELSE r.event ]
    ELSE IF e.b_pressed /\ ~e.b_hold
    THEN IF HoldReached(t, e.b_press_time)
         THEN [ ep |-> [e EXCEPT !.b_hold = TRUE],
                event |-> IF r.event = EVT_NONE THEN EVT_B_HOLD ELSE r.event ]
         ELSE r
    ELSE r

(* Variant of CompoundFires with the press-order comparison reversed.     *)
CompoundFires_order_reversed(e, ev) ==
    /\ ~e.compound_fired
    /\ ev = EVT_B_HOLD
    /\ e.a_pressed
    /\ e.a_press_time > e.b_press_time

(* Lines 118-122: the compound gesture fires.                              *)
CompoundFires(e, ev) ==
    /\ ~e.compound_fired
    /\ ev = EVT_B_HOLD
    /\ e.a_pressed
    /\ e.a_press_time < e.b_press_time

(* Variant of CompoundCleared that looks at button A only.                 *)
CompoundCleared_on_a_up(e) == ~e.a_pressed

(* Variant of CompoundCleared that clears once either button is up.       *)
CompoundCleared_on_either_up(e) == ~e.a_pressed \/ ~e.b_pressed

(* Lines 128-131: the compound-fired flag is cleared.                      *)
CompoundCleared(e) == ~e.a_pressed /\ ~e.b_pressed

(* Lines 113-131: compound gesture detection and flag clearing.            *)
EpStageCompound(r) ==
    LET fired == CompoundFires(r.ep, r.event)
        e1 == IF fired THEN [r.ep EXCEPT !.compound_fired = TRUE] ELSE r.ep
        e2 == IF CompoundCleared(e1)
              THEN [e1 EXCEPT !.compound_fired = FALSE] ELSE e1
    IN [ ep |-> e2, event |-> IF fired THEN EVT_MENU_TOGGLE ELSE r.event ]

(* Lines 133-143: CV edge detection, only when no event was produced.      *)
EpStageCV(r) ==
    LET e == r.ep IN
    IF r.event = EVT_NONE
    THEN [ ep |-> e,
           event |-> IF e.cv_state /\ ~e.cv_last THEN EVT_CV_RISE
                     ELSE IF ~e.cv_state /\ e.cv_last THEN EVT_CV_FALL
                     ELSE EVT_NONE ]
    ELSE r

(* Variant of EpStoreLast that leaves a press of B whose event was         *)
(* suppressed to be detected again.                                        *)
EpStoreLast_retries_suppressed(r) ==
    [ ep |-> [r.ep EXCEPT !.a_last = r.ep.a_pressed,
                          !.b_last = IF r.ep.b_pressed /\ ~r.ep.b_last
                                        /\ r.event # EVT_B_PRESS
                                     THEN FALSE ELSE r.ep.b_pressed,
                          !.cv_last = r.ep.cv_state],
      event |-> r.event ]

(* Lines 145-148: current states become the last states.                   *)
EpStoreLast(r) ==
    [ ep |-> [r.ep EXCEPT !.a_last = r.ep.a_pressed,
                          !.b_last = r.ep.b_pressed,
                          !.cv_last = r.ep.cv_state],
      event |-> r.event ]

(* event_processor_update: [ep, event] after one call.                     *)
EventProcessorUpdate(e, a, b, cv, t) ==
    EpStoreLast(EpStageCV(EpStageCompound(
        EpStageB(EpStageA(EpLatchInputs(e, a, b, cv), t), t))))

-----------------------------------------------------------------------------
(* CV input with hysteresis (src/lib/input/cv_input.c) *)

CvInputInitCustom(high_threshold, low_threshold) ==
    [ high_threshold |-> high_threshold,
      low_threshold |-> low_threshold,
      last_adc_value |-> 0, current_state |-> FALSE ]

CvInputInit ==
    CvInputInitCustom(CV_DEFAULT_HIGH_THRESHOLD, CV_DEFAULT_LOW_THRESHOLD)

(* Variant of CvInputUpdate that also flips on a sample equal to the       *)
(* threshold.                                                              *)
CvInputUpdate_inclusive(c, adc_value) ==
    [c EXCEPT !.last_adc_value = adc_value,
              !.current_state =
                  IF c.current_state
                  THEN ~(adc_value <= c.low_threshold)
                  ELSE adc_value >= c.high_threshold]

CvInputUpdate(c, adc_value) ==
    [c EXCEPT !.last_adc_value = adc_value,
              !.current_state =
                  IF c.current_state
                  THEN ~(adc_value < c.low_threshold)
                  ELSE adc_value > c.high_threshold]

(* A CVInput with the samples it has been given and the levels             *)
(* cv_input_update returned for them.                                      *)
CvRunInit(c) == [ input |-> c, samples |-> << >>, levels |-> << >> ]

-----------------------------------------------------------------------------
(* Debounced button (src/lib/input/button.h, which holds the               *)
(* implementation too).  The status byte is kept as one boolean per flag.  *)

ButtonInit ==
    [ raw |-> FALSE, pressed |-> FALSE, last |-> FALSE, rise |-> FALSE,
      fall |-> FALSE, config |-> FALSE, counting |-> FALSE,
      tap_count |-> 0, last_rise_time |-> 0, last_fall_time |-> 0,
      last_tap_time |-> 0 ]

(* button_has_rising_edge: the edge found and the button it leaves. *)
ButtonHasRisingEdge(b, t) ==
    IF b.raw /\ ~b.last /\ Sub32(t, b.last_rise_time) > EDGE_DEBOUNCE_MS
    THEN [ button |-> [b EXCEPT !.last_rise_time = t], edge |-> TRUE ]
    ELSE [ button |-> b, edge |-> FALSE ]

(* Variant of ButtonHasFallingEdge whose guard runs from the last rising   *)
(* edge.                                                                   *)
ButtonHasFallingEdge_guard_from_rise(b, t) ==
    IF ~b.raw /\ b.last /\ Sub32(t, b.last_rise_time) > EDGE_DEBOUNCE_MS
    THEN [ button |-> [b EXCEPT !.last_fall_time = t], edge |-> TRUE ]
    ELSE [ button |-> b, edge |-> FALSE ]

(* button_has_falling_edge *)
ButtonHasFallingEdge(b, t) ==
    IF ~b.raw /\ b.last /\ Sub32(t, b.last_fall_time) > EDGE_DEBOUNCE_MS
    THEN [ button |-> [b EXCEPT !.last_fall_time = t], edge |-> TRUE ]
    ELSE [ button |-> b, edge |-> FALSE ]

(* button_detect_config_action: the retired five-taps-and-hold gesture. *)
ButtonDetectConfigAction(b, t) ==
    LET b1 == IF b.rise
              THEN LET n == IF Sub32(t, b.last_tap_time) <= TAP_TIMEOUT_MS
                            THEN (b.tap_count + 1) % 256 ELSE 1
                   IN [b EXCEPT !.tap_count = n, !.last_tap_time = t,
                                !.counting = @ \/ n >= TAPS_TO_CHANGE]
              ELSE b
        detected == /\ b1.counting
                    /\ b1.pressed
                    /\ Sub32(t, b1.last_tap_time) >= HOLD_TIME_MS
        b2 == IF detected
              THEN [b1 EXCEPT !.counting = FALSE, !.tap_count = 0]
              ELSE b1
        b3 == IF ~b2.pressed
              THEN [b2 EXCEPT !.counting = FALSE,
                      !.tap_count =
                          IF Sub32(t, b2.last_tap_time) > TAP_TIMEOUT_MS
                          THEN 0 ELSE @]
              ELSE b2
    IN [ button |-> b3, action_detected |-> detected ]

(* button_update with the raw pin read as pressed or not at time t. *)
ButtonUpdate(b, raw_pressed, t) ==
    LET b0 == [b EXCEPT !.raw = raw_pressed, !.rise = FALSE, !.fall = FALSE]
        r == ButtonHasRisingEdge(b0, t)
        b1 == IF r.edge
              THEN [r.button EXCEPT !.rise = TRUE, !.pressed = TRUE]
              ELSE r.button
        f == ButtonHasFallingEdge(b1, t)
        b2 == IF f.edge
              THEN [f.button EXCEPT !.fall = TRUE, !.pressed = FALSE]
              ELSE f.button
        c == ButtonDetectConfigAction(b2, t)
        b3 == IF c.action_detected
              THEN [c.button EXCEPT !.config = TRUE]
              ELSE c.button
    IN [b3 EXCEPT !.last = b3.pressed]

(* A Button with its value before the last update and the updates made. *)
ButtonRunInit == [ btn |-> ButtonInit, before |-> ButtonInit, updates |-> 0 ]

-----------------------------------------------------------------------------
(* Pulse output (src/lib/output/cv_output.c).  The status byte is kept as  *)
(* one boolean per flag: state (CVOUT_STATE), pulse (CVOUT_PULSE) and      *)
(* last_in (CVOUT_LAST_IN).                                                *)

CvOutputInit ==
    [ state |-> FALSE, pulse |-> FALSE, last_in |-> FALSE, pulse_start |-> 0 ]

CvOutputUpdatePulse(o, input, t) ==
    LET o1 == IF input /\ ~o.last_in
              THEN [o EXCEPT !.pulse_start = t, !.pulse = TRUE, !.state = TRUE]
              ELSE o
        o2 == IF o1.pulse /\ Sub32(t, o1.pulse_start) >= PULSE_DURATION_MS
              THEN [o1 EXCEPT !.pulse = FALSE, !.state = FALSE]
              ELSE o1
    IN [o2 EXCEPT !.last_in = input]

(* A CVOutput with the time of the last rising edge of its input that did  *)
(* not come within the pulse duration of the one recorded before it, once  *)
(* there has been one.                                                     *)
CvOutputRunInit ==
    [ out |-> CvOutputInit, edge_seen |-> FALSE, pulse_edge |-> 0 ]

-----------------------------------------------------------------------------
(* Generic table-driven FSM (src/lib/fsm/fsm.c).  Every state table of the *)
(* coordinator has NULL on_enter / on_exit / on_update entries, so a       *)
(* transition runs the row's action and then stores the target state.      *)

FsmInit(initial) == [ current_state |-> initial, active |-> FALSE ]

FsmStart(fsm) == [fsm EXCEPT !.active = TRUE]

(* Lines 95-99: the row matches the current state and the event. *)
RowMatches(row, current_state, ev) ==
    /\ (row.from_state = current_state \/ row.from_state = FSM_ANY_STATE)
    /\ row.event = ev

(* Variant of FsmFindRow that takes the last matching row. *)
FsmFindRow_last_match(table, current_state, ev) ==
    LET hits == { i \in 1..Len(table) : RowMatches(table[i], current_state, ev) }
    IN IF hits = {} THEN 0
       ELSE CHOOSE i \in hits : \A j \in hits : i >= j

(* Lines 91-125: index of the first matching row, 0 when there is none. *)
FsmFindRow(table, current_state, ev) ==
    LET hits == { i \in 1..Len(table) : RowMatches(table[i], current_state, ev) }
    IN IF hits = {} THEN 0
       ELSE CHOOSE i \in hits : \A j \in hits : i <= j

(* The engine with callbacks.  A state of the state table is                *)
(* [id, on_enter, on_exit], the last two telling whether the pointer is     *)
(* non-NULL; a row's action is its name, NoAction for NULL.  A callback     *)
(* that runs is recorded with the current state it finds.                   *)

NoAction == ""

(* find_state_index: 0 when the id is not in the table. *)
FindStateIndex(states, state_id) ==
    LET hits == { i \in 1..Len(states) : states[i].id = state_id }
    IN IF hits = {} THEN 0 ELSE CHOOSE i \in hits : \A j \in hits : i <= j

StateCall(kind, fsm, states, state_id) ==
    LET idx == FindStateIndex(states, state_id)
    IN IF idx = 0 \/ ~states[idx][kind] THEN << >>
       ELSE << [ call |-> kind, state |-> state_id, action |-> NoAction,
                 seen |-> fsm.current_state ] >>

call_entry_action(fsm, states, state_id) ==
    StateCall("on_enter", fsm, states, state_id)

call_exit_action(fsm, states, state_id) ==
    StateCall("on_exit", fsm, states, state_id)

ActionCall(fsm, row) ==
    IF row.action = NoAction THEN << >>
    ELSE << [ call |-> "action", state |-> row.to_state, action |-> row.action,
              seen |-> fsm.current_state ] >>

(* fsm_start: [fsm, calls] *)
FsmEngineStart(fsm, states) ==
    LET f == [fsm EXCEPT !.active = TRUE]
    IN [ fsm |-> f, calls |-> call_entry_action(f, states, f.current_state) ]

(* fsm_stop: [fsm, calls] *)
FsmEngineStop(fsm, states) ==
    IF ~fsm.active THEN [ fsm |-> fsm, calls |-> << >> ]
    ELSE [ fsm |-> [fsm EXCEPT !.active = FALSE],
           calls |-> call_exit_action(fsm, states, fsm.current_state) ]

(* fsm_process_event: [fsm, calls, changed] *)
FsmEngineProcessEvent(fsm, states, transitions, ev) ==
    LET i == FsmFindRow(transitions, fsm.current_state, ev)
    IN IF ~fsm.active \/ i = 0
       THEN [ fsm |-> fsm, calls |-> << >>, changed |-> FALSE ]
       ELSE LET row == transitions[i]
            IN IF row.to_state = FSM_NO_TRANSITION
               THEN [ fsm |-> fsm, calls |-> ActionCall(fsm, row),
                      changed |-> FALSE ]
               ELSE LET f == [fsm EXCEPT !.current_state = row.to_state]
                    IN [ fsm |-> f,
                         calls |-> call_exit_action(fsm, states, fsm.current_state)
                                   \o ActionCall(fsm, row)
                                   \o call_entry_action(f, states, f.current_state),
                         changed |-> TRUE ]

(* State and transition tables that exercise the engine: states with and   *)
(* without callbacks, a target that is not in the state table, rows        *)
(* shadowed by an earlier exact or wildcard row, rows without state change *)
(* and rows without action.                                                *)
MachineStates ==
    << [ id |-> 0, on_enter |-> TRUE, on_exit |-> TRUE ],
       [ id |-> 1, on_enter |-> TRUE, on_exit |-> FALSE ],
       [ id |-> 2, on_enter |-> FALSE, on_exit |-> TRUE ] >>

MachineRow(from_state, ev, to_state, action) ==
    [ from_state |-> from_state, event |-> ev, to_state |-> to_state,
      action |-> action ]

MachineTransitions(table) ==
    IF table = 1
    THEN << MachineRow(0, 1, 1, "go"),
            MachineRow(0, 1, 2, "shadowed"),
            MachineRow(FSM_ANY_STATE, 2, FSM_NO_TRANSITION, "note"),
            MachineRow(1, 2, 0, "shadowed"),
            MachineRow(1, 3, 2, NoAction),
            MachineRow(FSM_ANY_STATE, 3, 0, "home"),
            MachineRow(2, 1, FSM_NO_TRANSITION, NoAction),
            MachineRow(2, 4, 2, "again"),
            MachineRow(0, 4, 3, "out") >>
    ELSE << MachineRow(FSM_ANY_STATE, 1, 1, "any"),
            MachineRow(0, 1, 2, "shadowed"),
            MachineRow(1, 2, FSM_NO_TRANSITION, "note"),
            MachineRow(FSM_ANY_STATE, 2, 2, "late"),
            MachineRow(2, 3, 0, NoAction) >>

MachineEvents == 1..5

(* An FSM after fsm_init, with the operation last run on it, the FSM       *)
(* before that operation, the event given, the callbacks the operation ran *)
(* and what it returned.                                                   *)
MachineInit(table, initial) ==
    [ table |-> table,
      fsm |-> FsmInit(initial),
      before |-> FsmInit(initial),
      op |-> "fsm_init", event |-> 0, calls |-> << >>, changed |-> FALSE,
      steps |-> 0 ]

-----------------------------------------------------------------------------
(* Settings store (app_init.c, held in src/src/output/led_feedback.c) *)

SettingsFields ==
    << "mode", "trigger_pulse_idx", "trigger_edge", "divide_divisor_idx",
       "cycle_tempo_idx", "toggle_edge", "gate_a_mode", "reserved" >>

SETTINGS_LIMITS ==
    << MODE_COUNT, TRIGGER_PULSE_COUNT, TRIGGER_EDGE_COUNT,
       DIVIDE_DIVISOR_COUNT, CYCLE_TEMPO_COUNT, TOGGLE_EDGE_COUNT,
       GATE_A_MODE_COUNT, 0 >>

AppInitGetDefaults ==
    [ mode |-> MODE_GATE, trigger_pulse_idx |-> 0, trigger_edge |-> 0,
      divide_divisor_idx |-> 0, cycle_tempo_idx |-> 0, toggle_edge |-> 0,
      gate_a_mode |-> 0, reserved |-> 0 ]

(* The packed struct seen as its eight bytes. *)
SettingsBytes(s) == [ i \in 1..APP_SETTINGS_SIZE |-> s[SettingsFields[i]] ]

RECURSIVE XorBits(_, _, _)
XorBits(x, y, n) ==
    IF n = 0 THEN 0
    ELSE ((x + y) % 2) + 2 * XorBits(x \div 2, y \div 2, n - 1)

Xor8(x, y) == XorBits(x, y, 8)

RECURSIVE XorFold(_, _)
XorFold(bytes, n) ==
    IF n = 0 THEN 0 ELSE Xor8(XorFold(bytes, n - 1), bytes[n])

CalculateChecksum(s) == XorFold(SettingsBytes(s), APP_SETTINGS_SIZE)

EepromAddrs == 0..EEPROM_CHECKSUM_ADDR

-----------------------------------------------------------------------------
(* Factory-reset check (app_init_check_factory_reset, led_feedback.c       *)
(* 338-386).  util_delay_ms is a blocking delay of the platform: it        *)
(* returns, and while it runs the millisecond timer advances by the length *)
(* of the delay when the timer works and not at all when it has stopped.   *)
(*   pc           "entry", "loop" or "done"                                *)
(*   sig_out      level of the output pin the feedback toggles             *)
(*   released     some read of the buttons found one released (observation)*)

ResetCheckInit ==
    [ pc |-> "entry", start_time |-> 0, last_blink |-> 0, iterations |-> 0,
      result |-> FALSE, sig_out |-> FALSE, released |-> FALSE ]

(* The locals as main finds them when app_init_run has returned without a *)
(* reset.                                                                  *)
ResetCheckReturned == [ResetCheckInit EXCEPT !.pc = "done"]

(* Timer advance during util_delay_ms(ms): a working or a stopped timer. *)
DelayAdvances(ms) == {0, ms}

(* Lines 339-358: timer sanity check, first read of the buttons, start of  *)
(* the count.  t2 is the timer after the 10 ms delay.                      *)
ResetCheckEntry(r, a, b, t1, t2) ==
    IF t2 <= t1 THEN [r EXCEPT !.pc = "done", !.result = FALSE]
    ELSE IF ~a \/ ~b
    THEN [r EXCEPT !.pc = "done", !.result = FALSE, !.released = TRUE]
    ELSE [r EXCEPT !.pc = "loop", !.start_time = t2, !.last_blink = t2,
                   !.iterations = 0]

(* Variant of ResetLoopContinues whose cap lets one more iteration run.    *)
ResetLoopContinues_cap_off_by_one(r, t) ==
    /\ Sub32(t, r.start_time) < APP_INIT_RESET_HOLD_MS
    /\ r.iterations <= APP_INIT_RESET_MAX_ITERATIONS

(* Variant of ResetLoopContinues that ends the loop one poll early.        *)
ResetLoopContinues_short_hold(r, t) ==
    /\ Sub32(t, r.start_time) < APP_INIT_RESET_HOLD_MS - APP_INIT_RESET_POLL_MS
    /\ r.iterations < APP_INIT_RESET_MAX_ITERATIONS

(* Lines 362-363: the condition of the while loop. *)
ResetLoopContinues(r, t) ==
    /\ Sub32(t, r.start_time) < APP_INIT_RESET_HOLD_MS
    /\ r.iterations < APP_INIT_RESET_MAX_ITERATIONS

(* Lines 364-381: one iteration of the loop up to its delay. *)
ResetCheckPoll(r, a, b, t) ==
    LET blink == Sub32(t, r.last_blink) >= APP_INIT_RESET_BLINK_MS
        r1 == IF blink THEN [r EXCEPT !.sig_out = ~@, !.last_blink = t] ELSE r
    IN IF ~a \/ ~b
       THEN [r1 EXCEPT !.pc = "done", !.result = FALSE, !.sig_out = FALSE,
                       !.released = TRUE]
       ELSE [r1 EXCEPT !.iterations = @ + 1]

(* Lines 383-385: reset_complete_feedback and the return. *)
ResetCheckComplete(r) ==
    [r EXCEPT !.pc = "done", !.result = TRUE, !.sig_out = FALSE]

EepromErased == [ a \in EepromAddrs |-> 255 ]

(* eeprom_write_word / eeprom_read_word: little-endian. *)
EepromWriteWord(ee, addr, w) ==
    [ee EXCEPT ![addr] = w % 256, ![addr + 1] = w \div 256]

(* Variant of EepromReadWord that reads the word high byte first.          *)
EepromReadWord_big_endian(ee, addr) == 256 * ee[addr] + ee[addr + 1]

EepromReadWord(ee, addr) == ee[addr] + 256 * ee[addr + 1]

AppInitSaveSettings(ee, s) ==
    LET e1 == EepromWriteWord(ee, EEPROM_MAGIC_ADDR, EEPROM_MAGIC_VALUE)
        e2 == [e1 EXCEPT ![EEPROM_SCHEMA_ADDR] = SETTINGS_SCHEMA_VERSION]
        e3 == [ a \in EepromAddrs |->
                  IF a >= EEPROM_SETTINGS_ADDR
                     /\ a < EEPROM_SETTINGS_ADDR + APP_SETTINGS_SIZE
                  THEN SettingsBytes(s)[a - EEPROM_SETTINGS_ADDR + 1]
                  ELSE e2[a] ]
    IN [e3 EXCEPT ![EEPROM_CHECKSUM_ADDR] = CalculateChecksum(s)]

(* The record read back from the settings area. *)
EepromSettings(ee) ==
    [ mode |-> ee[EEPROM_SETTINGS_ADDR],
      trigger_pulse_idx |-> ee[EEPROM_SETTINGS_ADDR + 1],
      trigger_edge |-> ee[EEPROM_SETTINGS_ADDR + 2],
      divide_divisor_idx |-> ee[EEPROM_SETTINGS_ADDR + 3],
      cycle_tempo_idx |-> ee[EEPROM_SETTINGS_ADDR + 4],
      toggle_edge |-> ee[EEPROM_SETTINGS_ADDR + 5],
      gate_a_mode |-> ee[EEPROM_SETTINGS_ADDR + 6],
      reserved |-> ee[EEPROM_SETTINGS_ADDR + 7] ]

(* Variant of load_settings without the range validation of the fields.   *)
LoadSettingsOk_no_range_check(ee) ==
    LET s == EepromSettings(ee) IN
    /\ EepromReadWord(ee, EEPROM_MAGIC_ADDR) = EEPROM_MAGIC_VALUE
    /\ ee[EEPROM_SCHEMA_ADDR] = SETTINGS_SCHEMA_VERSION
    /\ ee[EEPROM_CHECKSUM_ADDR] = CalculateChecksum(s)

(* load_settings: TRUE when all four validation levels pass. *)
LoadSettingsOk(ee) ==
    LET s == EepromSettings(ee) IN
    /\ EepromReadWord(ee, EEPROM_MAGIC_ADDR) = EEPROM_MAGIC_VALUE
    /\ ee[EEPROM_SCHEMA_ADDR] = SETTINGS_SCHEMA_VERSION
    /\ ee[EEPROM_CHECKSUM_ADDR] = CalculateChecksum(s)
    /\ \A i \in 1..APP_SETTINGS_SIZE :
          SETTINGS_LIMITS[i] > 0 => SettingsBytes(s)[i] < SETTINGS_LIMITS[i]

(* app_init_run without a factory reset: the settings the device boots on. *)
AppInitRun(ee) ==
    IF LoadSettingsOk(ee) THEN EepromSettings(ee) ELSE AppInitGetDefaults

(* The result code app_init_run returns with them. *)
AppInitRunResult(ee) ==
    IF LoadSettingsOk(ee) THEN APP_INIT_OK ELSE APP_INIT_OK_DEFAULTS

-----------------------------------------------------------------------------
(* Mode handlers.  mode_handlers.c is not among the sources; init and      *)
(* process follow section 4.6 of the specification, the context layout and *)
(* the lookup tables follow mode_handlers.h and mode_config.h.             *)

TRIGGER_PULSE_VALUES == << 10, 50, 100, 1 >>
DIVIDE_DIVISOR_VALUES == << 2, 4, 8, 24 >>
CYCLE_PERIOD_VALUES == << 1000, 750, 600, 500, 375 >>

(* The ModeContext union: the fields of the live variant; the others are 0. *)
ModeContextZero ==
    [ output_state |-> FALSE, last_input |-> FALSE, pulse_start |-> 0,
      pulse_duration_ms |-> 0, counter |-> 0, divisor |-> 0,
      running |-> FALSE, last_toggle |-> 0, period_ms |-> 0, phase |-> 0 ]

ModeHandlerInit(mode, s, t) ==
    CASE mode = MODE_TRIGGER ->
           [ModeContextZero EXCEPT
               !.pulse_duration_ms = TRIGGER_PULSE_VALUES[s.trigger_pulse_idx + 1]]
      [] mode = MODE_DIVIDE ->
           [ModeContextZero EXCEPT
               !.divisor = DIVIDE_DIVISOR_VALUES[s.divide_divisor_idx + 1]]
      [] mode = MODE_CYCLE ->
           [ModeContextZero EXCEPT
               !.running = TRUE, !.last_toggle = t,
               !.period_ms = CYCLE_PERIOD_VALUES[s.cycle_tempo_idx + 1]]
      [] OTHER -> ModeContextZero

(* A pulse that is high ends once now - pulse_start >= duration. *)
PulseExpire(ctx, duration, t) ==
    IF ctx.output_state /\ Sub32(t, ctx.pulse_start) >= duration
    THEN [ctx EXCEPT !.output_state = FALSE] ELSE ctx

ProcessGate(ctx, in) == [ctx EXCEPT !.output_state = in]

ProcessTrigger(ctx, in, t) ==
    LET rising == in /\ ~ctx.last_input
        c1 == IF rising /\ ~ctx.output_state
              THEN [ctx EXCEPT !.output_state = TRUE, !.pulse_start = t]
              ELSE ctx
        c2 == PulseExpire(c1, c1.pulse_duration_ms, t)
    IN [c2 EXCEPT !.last_input = in]

ProcessToggle(ctx, in, s) ==
    LET edge == IF s.toggle_edge = 0 THEN in /\ ~ctx.last_input
                ELSE ~in /\ ctx.last_input
    IN [ctx EXCEPT !.output_state = IF edge THEN ~@ ELSE @, !.last_input = in]

ProcessDivide(ctx, in, t) ==
    LET rising == in /\ ~ctx.last_input
        cnt == IF rising THEN (ctx.counter + 1) % ctx.divisor ELSE ctx.counter
        c1 == IF rising /\ cnt = 0
              THEN [ctx EXCEPT !.counter = cnt, !.output_state = TRUE,
                               !.pulse_start = t]
              ELSE [ctx EXCEPT !.counter = cnt]
        c2 == PulseExpire(c1, OUTPUT_PULSE_MS, t)
    IN [c2 EXCEPT !.last_input = in]

ProcessCycle(ctx, t) ==
    LET half == ctx.period_ms \div 2
        c1 == IF Sub32(t, ctx.last_toggle) >= half
              THEN [ctx EXCEPT !.output_state = ~@, !.last_toggle = t]
              ELSE ctx
    IN [c1 EXCEPT !.phase = ((Sub32(t, c1.last_toggle) * 255) \div half) % 256]

(* mode_handler_process: the context after one call; its output_state is   *)
(* the value stored through the output pointer.                            *)
ModeHandlerProcess(mode, ctx, in, s, t) ==
    CASE mode = MODE_GATE -> ProcessGate(ctx, in)
      [] mode = MODE_TRIGGER -> ProcessTrigger(ctx, in, t)
      [] mode = MODE_TOGGLE -> ProcessToggle(ctx, in, s)
      [] mode = MODE_DIVIDE -> ProcessDivide(ctx, in, t)
      [] mode = MODE_CYCLE -> ProcessCycle(ctx, t)
      [] OTHER -> ctx

-----------------------------------------------------------------------------
(* Coordinator (coordinator.c, held in src/src/events/events.c from line   *)
(* 173).  The operators below work on a machine record                     *)
(*   m = [coord, settings, eeprom, offers]                                 *)
(* threaded through the statements of coordinator_update.                  *)

(* Variant of top_transitions in which a release of A also leaves the     *)
(* menu.                                                                   *)
top_transitions_exit_on_release ==
    << [ from_state |-> TOP_PERFORM, event |-> EVT_MENU_TOGGLE,
         to_state |-> TOP_MENU, action |-> "action_enter_menu" ],
       [ from_state |-> TOP_MENU, event |-> EVT_MENU_TOGGLE,
         to_state |-> TOP_PERFORM, action |-> "action_exit_menu" ],
       [ from_state |-> TOP_MENU, event |-> EVT_TIMEOUT,
         to_state |-> TOP_PERFORM, action |-> "action_exit_menu" ],
       [ from_state |-> TOP_MENU, event |-> EVT_A_RELEASE,
         to_state |-> TOP_PERFORM, action |-> "action_exit_menu" ] >>

top_transitions ==
    << [ from_state |-> TOP_PERFORM, event |-> EVT_MENU_TOGGLE,
         to_state |-> TOP_MENU, action |-> "action_enter_menu" ],
       [ from_state |-> TOP_MENU, event |-> EVT_MENU_TOGGLE,
         to_state |-> TOP_PERFORM, action |-> "action_exit_menu" ],
       [ from_state |-> TOP_MENU, event |-> EVT_TIMEOUT,
         to_state |-> TOP_PERFORM, action |-> "action_exit_menu" ] >>

mode_transitions ==
    << [ from_state |-> FSM_ANY_STATE, event |-> EVT_MODE_NEXT,
         to_state |-> FSM_NO_TRANSITION, action |-> "action_next_mode" ] >>

menu_transitions ==
    << [ from_state |-> FSM_ANY_STATE, event |-> EVT_A_TAP,
         to_state |-> FSM_NO_TRANSITION, action |-> "action_next_page" ],
       [ from_state |-> FSM_ANY_STATE, event |-> EVT_B_TAP,
         to_state |-> FSM_NO_TRANSITION, action |-> "action_cycle_value" ] >>

FsmTable(which) ==
    CASE which = "top_fsm" -> top_transitions
      [] which = "mode_fsm" -> mode_transitions
      [] which = "menu_fsm" -> menu_transitions

mode_to_start_page(mode) ==
    CASE mode = MODE_GATE -> PAGE_GATE_CV
      [] mode = MODE_TRIGGER -> PAGE_TRIGGER_BEHAVIOR
      [] mode = MODE_TOGGLE -> PAGE_TOGGLE_BEHAVIOR
      [] mode = MODE_DIVIDE -> PAGE_DIVIDE_DIVISOR
      [] mode = MODE_CYCLE -> PAGE_CYCLE_PATTERN
      [] OTHER -> PAGE_GATE_CV

(* Variant of action_enter_menu that leaves last_activity as it was.       *)
action_enter_menu_keeps_activity(m, t) ==
    LET mode == m.coord.mode_fsm.current_state IN
    [m EXCEPT !.coord.menu_entry_mode = mode,
              !.coord.menu_enter_time = t,
              !.coord.menu_fsm.current_state = mode_to_start_page(mode)]

action_enter_menu(m, t) ==
    LET mode == m.coord.mode_fsm.current_state IN
    [m EXCEPT !.coord.menu_entry_mode = mode,
              !.coord.menu_enter_time = t,
              !.coord.last_activity = t,
              !.coord.menu_fsm.current_state = mode_to_start_page(mode)]

(* Variant of action_exit_menu that saves the record without copying the  *)
(* current mode into it.                                                   *)
action_exit_menu_stale_mode(m) ==
    [m EXCEPT !.eeprom = AppInitSaveSettings(m.eeprom, m.settings)]

action_exit_menu(m) ==
    LET s == [m.settings EXCEPT !.mode = m.coord.mode_fsm.current_state]
    IN [m EXCEPT !.settings = s, !.eeprom = AppInitSaveSettings(m.eeprom, s)]

(* Variant of NextMode that stops at the last mode instead of wrapping.    *)
NextMode_saturating(current) ==
    IF current + 1 < MODE_COUNT THEN current + 1 ELSE current

(* Line 294: the mode that follows the current one. *)
NextMode(current) == (current + 1) % MODE_COUNT

(* Variant of action_next_mode that also saves the record with the new     *)
(* mode.                                                                   *)
action_next_mode_saves(m, t) ==
    LET next == NextMode(m.coord.mode_fsm.current_state)
        s == [m.settings EXCEPT !.mode = next]
    IN [m EXCEPT !.coord.mode_fsm.current_state = next,
                 !.coord.mode_ctx = ModeHandlerInit(next, m.settings, t),
                 !.coord.last_activity = t,
                 !.settings = s,
                 !.eeprom = AppInitSaveSettings(m.eeprom, s)]

(* action_next_mode with the output bit carried over into the fresh variant. *)
action_next_mode_keeps_output(m, t) ==
    LET next == NextMode(m.coord.mode_fsm.current_state) IN
    [m EXCEPT !.coord.mode_fsm.current_state = next,
              !.coord.mode_ctx =
                  [ModeHandlerInit(next, m.settings, t) EXCEPT
                      !.output_state = m.coord.mode_ctx.output_state],
              !.coord.last_activity = t]

action_next_mode(m, t) ==
    LET next == NextMode(m.coord.mode_fsm.current_state) IN
    [m EXCEPT !.coord.mode_fsm.current_state = next,
              !.coord.mode_ctx = ModeHandlerInit(next, m.settings, t),
              !.coord.last_activity = t]

action_next_page(m, t) ==
    [m EXCEPT !.coord.menu_fsm.current_state = (@ + 1) % PAGE_COUNT,
              !.coord.last_activity = t]

(* Lines 322-364: the settings field the page owns, "" for the pages that  *)
(* cycle nothing, with its value count and the mode it governs.            *)
PageField(page) ==
    CASE page = PAGE_GATE_CV ->
           [ field |-> "gate_a_mode", count |-> GATE_A_MODE_COUNT, mode |-> MODE_GATE ]
      [] page = PAGE_TRIGGER_BEHAVIOR ->
           [ field |-> "trigger_edge", count |-> TRIGGER_EDGE_COUNT, mode |-> MODE_TRIGGER ]
      [] page = PAGE_TRIGGER_PULSE_LEN ->
           [ field |-> "trigger_pulse_idx", count |-> TRIGGER_PULSE_COUNT, mode |-> MODE_TRIGGER ]
      [] page = PAGE_TOGGLE_BEHAVIOR ->
           [ field |-> "toggle_edge", count |-> TOGGLE_EDGE_COUNT, mode |-> MODE_TOGGLE ]
      [] page = PAGE_DIVIDE_DIVISOR ->
           [ field |-> "divide_divisor_idx", count |-> DIVIDE_DIVISOR_COUNT, mode |-> MODE_DIVIDE ]
      [] page = PAGE_CYCLE_PATTERN ->
           [ field |-> "cycle_tempo_idx", count |-> CYCLE_TEMPO_COUNT, mode |-> MODE_CYCLE ]
      [] OTHER -> [ field |-> "", count |-> 1, mode |-> MODE_COUNT ]

(* Variant of action_cycle_value that wraps one value too late.            *)
action_cycle_value_past_last(m, t) ==
    LET pf == PageField(m.coord.menu_fsm.current_state)
        s == IF pf.field = "" THEN m.settings
             ELSE [m.settings EXCEPT ![pf.field] = (@ + 1) % (pf.count + 1)]
    IN [m EXCEPT !.settings = s, !.coord.last_activity = t]

(* Variant of action_cycle_value that stops at the field's last value      *)
(* instead of wrapping to the first.                                       *)
action_cycle_value_saturating(m, t) ==
    LET pf == PageField(m.coord.menu_fsm.current_state)
        current_mode == m.coord.mode_fsm.current_state
        s == IF pf.field = "" THEN m.settings
             ELSE [m.settings EXCEPT
                      ![pf.field] = IF @ + 1 < pf.count THEN @ + 1 ELSE @]
        ctx == IF pf.field # "" /\ pf.mode = current_mode
               THEN ModeHandlerInit(current_mode, s, t)
               ELSE m.coord.mode_ctx
    IN [m EXCEPT !.settings = s, !.coord.mode_ctx = ctx,
                 !.coord.last_activity = t]

action_cycle_value(m, t) ==
    LET pf == PageField(m.coord.menu_fsm.current_state)
        current_mode == m.coord.mode_fsm.current_state
        s == IF pf.field = "" THEN m.settings
             ELSE [m.settings EXCEPT ![pf.field] = (@ + 1) % pf.count]
        ctx == IF pf.field # "" /\ pf.mode = current_mode
               THEN ModeHandlerInit(current_mode, s, t)
               ELSE m.coord.mode_ctx
    IN [m EXCEPT !.settings = s, !.coord.mode_ctx = ctx,
                 !.coord.last_activity = t]

(* t.action(): the action named by a transition row. *)
RunAction(name, m, t) ==
    CASE name = "action_enter_menu" -> action_enter_menu(m, t)
      [] name = "action_exit_menu" -> action_exit_menu(m)
      [] name = "action_next_mode" -> action_next_mode(m, t)
      [] name = "action_next_page" -> action_next_page(m, t)
      [] name = "action_cycle_value" -> action_cycle_value(m, t)
      [] OTHER -> m

(* fsm_process_event on the coordinator's FSM `which`:                     *)
(* [m, handled], the dispatch being appended to m.offers.                  *)
FsmProcessEvent(m, which, ev, t) ==
    LET fsm == m.coord[which]
        m0 == [m EXCEPT !.offers = Append(@, [fsm |-> which, event |-> ev])]
        i == FsmFindRow(FsmTable(which), fsm.current_state, ev)
    IN IF ~fsm.active \/ i = 0
       THEN [ m |-> m0, handled |-> FALSE ]
       ELSE LET row == FsmTable(which)[i]
                m1 == RunAction(row.action, m0, t)
            IN IF row.to_state = FSM_NO_TRANSITION
               THEN [ m |-> m1, handled |-> FALSE ]
               ELSE [ m |-> [m1 EXCEPT !.coord[which].current_state = row.to_state],
                      handled |-> TRUE ]

(* Variant of RouteTargets that routes to the mode FSM in either top state. *)
RouteTargets_mode_always(top_state) == << "mode_fsm" >>

(* Variant of RouteTargets that offers the event to both lower FSMs.       *)
RouteTargets_both(top_state) == << "mode_fsm", "menu_fsm" >>

(* Lines 460-467: the FSMs an event the top FSM did not consume is routed  *)
(* to, chosen by the top state held before the event.                      *)
RouteTargets(top_state) ==
    IF top_state = TOP_PERFORM THEN << "mode_fsm" >> ELSE << "menu_fsm" >>

RECURSIVE OfferAll(_, _, _, _)
OfferAll(m, targets, ev, t) ==
    IF targets = << >> THEN m
    ELSE OfferAll(FsmProcessEvent(m, Head(targets), ev, t).m, Tail(targets), ev, t)

(* Variant of RouteEvent that does not record the activity in MENU.       *)
RouteEvent_no_activity(m, ev, t) ==
    IF ev = EVT_NONE THEN m
    ELSE LET top_state == m.coord.top_fsm.current_state
             r == FsmProcessEvent(m, "top_fsm", ev, t)
         IN IF r.handled THEN r.m
            ELSE OfferAll(r.m, RouteTargets(top_state), ev, t)

(* Variant of RouteEvent that passes on an event the top FSM consumed.     *)
RouteEvent_forwards_handled(m, ev, t) ==
    IF ev = EVT_NONE THEN m
    ELSE LET top_state == m.coord.top_fsm.current_state
             m1 == IF top_state = TOP_MENU
                   THEN [m EXCEPT !.coord.last_activity = t] ELSE m
             r == FsmProcessEvent(m1, "top_fsm", ev, t)
         IN OfferAll(r.m, RouteTargets(top_state), ev, t)

(* Lines 449-469: route the event of this tick. *)
RouteEvent(m, ev, t) ==
    IF ev = EVT_NONE THEN m
    ELSE LET top_state == m.coord.top_fsm.current_state
             m1 == IF top_state = TOP_MENU
                   THEN [m EXCEPT !.coord.last_activity = t] ELSE m
             r == FsmProcessEvent(m1, "top_fsm", ev, t)
         IN IF r.handled THEN r.m
            ELSE OfferAll(r.m, RouteTargets(top_state), ev, t)

(* Variant of MenuTimedOut with a strict comparison.                       *)
MenuTimedOut_strict(t, last_activity) ==
    Sub32(t, last_activity) > MENU_TIMEOUT_MS

(* Lines 473-474: the menu has been idle for the timeout. *)
MenuTimedOut(t, last_activity) == Sub32(t, last_activity) >= MENU_TIMEOUT_MS

(* Lines 471-477: inject the synthetic timeout. *)
CheckMenuTimeout(m, t) ==
    IF m.coord.top_fsm.current_state = TOP_MENU
       /\ MenuTimedOut(t, m.coord.last_activity)
    THEN FsmProcessEvent(m, "top_fsm", EVT_TIMEOUT, t).m
    ELSE m

(* Variant of ModeInput that lets A drive the input in every mode.         *)
ModeInput_a_in_any_mode(c, s, cv_state) ==
    IF c.top_fsm.current_state = TOP_PERFORM
    THEN LET b_triggers == c.events.b_pressed /\ ~c.events.a_pressed
             base == cv_state \/ b_triggers
         IN IF s.gate_a_mode = GATE_A_MODE_MANUAL
            THEN base \/ c.events.a_pressed
            ELSE base
    ELSE cv_state

(* Variant of ModeInput that reads the buttons in MENU as in PERFORM.      *)
ModeInput_buttons_in_menu(c, s, cv_state) ==
    LET b_triggers == c.events.b_pressed /\ ~c.events.a_pressed
        base == cv_state \/ b_triggers
    IN IF c.mode_fsm.current_state = MODE_GATE
          /\ s.gate_a_mode = GATE_A_MODE_MANUAL
       THEN base \/ c.events.a_pressed
       ELSE base

(* Lines 483-502: the input of the mode handler. *)
ModeInput(c, s, cv_state) ==
    IF c.top_fsm.current_state = TOP_PERFORM
    THEN LET b_triggers == c.events.b_pressed /\ ~c.events.a_pressed
             base == cv_state \/ b_triggers
         IN IF c.mode_fsm.current_state = MODE_GATE
               /\ s.gate_a_mode = GATE_A_MODE_MANUAL
            THEN base \/ c.events.a_pressed
            ELSE base
    ELSE cv_state

(* coordinator_update with the HAL reading buttons a, b, ADC sample adc    *)
(* and millis() = t: [m, event, input_state].                              *)
CoordinatorUpdate(m, a, b, adc, t) ==
    LET cv == CvInputUpdate(m.coord.cv_input, adc)
        r == EventProcessorUpdate(m.coord.events, a, b, cv.current_state, t)
        m1 == [m EXCEPT !.coord.cv_input = cv, !.coord.events = r.ep,
                        !.offers = << >>]
        m2 == RouteEvent(m1, r.event, t)
        m3 == CheckMenuTimeout(m2, t)
        in == ModeInput(m3.coord, m3.settings, cv.current_state)
        ctx == ModeHandlerProcess(m3.coord.mode_fsm.current_state,
                                  m3.coord.mode_ctx, in, m3.settings, t)
    IN [ m |-> [m3 EXCEPT !.coord.mode_ctx = ctx,
                          !.coord.output_state = ctx.output_state],
         event |-> r.event, input_state |-> in ]

(* coordinator_init (lines 379-414). *)
CoordinatorInit ==
    [ top_fsm |-> FsmInit(TOP_PERFORM),
      mode_fsm |-> FsmInit(MODE_GATE),
      menu_fsm |-> FsmInit(PAGE_GATE_CV),
      events |-> EventProcessorInit,
      cv_input |-> CvInputInit,
      menu_entry_mode |-> MODE_GATE,
      menu_enter_time |-> 0,
      last_activity |-> 0,
      mode_ctx |-> ModeContextZero,
      output_state |-> FALSE ]

(* Variant of CoordinatorSetMode that falls back to the first mode on an   *)
(* ordinal outside the enumeration.                                        *)
CoordinatorSetMode_clamps(c, mode, s, t) ==
    LET m == IF mode >= MODE_COUNT THEN MODE_GATE ELSE mode
    IN [c EXCEPT !.mode_fsm.current_state = m,
                 !.mode_ctx = ModeHandlerInit(m, s, t)]

(* coordinator_set_mode (lines 520-525). *)
CoordinatorSetMode(c, mode, s, t) ==
    IF mode >= MODE_COUNT THEN c
    ELSE [c EXCEPT !.mode_fsm.current_state = mode,
                   !.mode_ctx = ModeHandlerInit(mode, s, t)]

(* coordinator_start (lines 416-425). *)
CoordinatorStart(c, t) ==
    [c EXCEPT !.top_fsm = FsmStart(@), !.mode_fsm = FsmStart(@),
              !.menu_fsm = FsmStart(@), !.last_activity = t]

(* coordinator_get_top_state, coordinator_get_mode, coordinator_get_page   *)
(* (lines 510-518, 532-535).                                               *)
coordinator_get_top_state(c) == c.top_fsm.current_state

coordinator_get_mode(c) == c.mode_fsm.current_state

coordinator_get_page(c) == c.menu_fsm.current_state

(* Start-up as in main: load or default the settings, init the coordinator,*)
(* restore the saved mode, start the FSMs.                                 *)
Startup(ee, t) ==
    LET s == AppInitRun(ee)
        c0 == CoordinatorInit
        c1 == IF s.mode < MODE_COUNT THEN CoordinatorSetMode(c0, s.mode, s, t)
              ELSE c0
    IN [ coord |-> CoordinatorStart(c1, t), settings |-> s ]

-----------------------------------------------------------------------------
(* The tick loop *)

(* Store images the device is powered up with: an erased store, and a      *)
(* store holding a record saved by an earlier run.                         *)
BootImages ==
    { EepromErased,
      AppInitSaveSettings(EepromErased,
                          [AppInitGetDefaults EXCEPT
                              !.mode = MODE_CYCLE,
                              !.gate_a_mode = GATE_A_MODE_MANUAL]) }

(* History of button A's current press, kept for stating properties; the  *)
(* program does not read it.                                               *)
(*   phase          "up", "down", or "released" on the release tick        *)
(*   log            button and gesture events emitted since the press tick *)
(*   b_before       B was pressed on the tick before A's press             *)
(*   b_during       B was pressed on some tick on which A was down         *)
(*   b_rise_in_hold B went from released to pressed on a tick at which A   *)
(*                  had been held for the hold threshold                   *)
(*   hold_in_menu   the press emitted A-hold on a tick entered in MENU     *)
(*   toggles        menu-toggles emitted since the last tick that sampled  *)
(*                  both buttons released (kept across presses of A)       *)
GestureInit ==
    [ phase |-> "up", log |-> << >>, b_before |-> FALSE, b_during |-> FALSE,
      b_rise_in_hold |-> FALSE, hold_in_menu |-> FALSE, toggles |-> 0 ]

CvEvents == { EVT_CV_RISE, EVT_CV_FALL }

GestureUpdate(g, e, top_state, a, b, ev, t) ==
    LET entry == IF ev \in {EVT_NONE} \cup CvEvents THEN << >> ELSE << ev >>
        toggles == IF ~a /\ ~b THEN 0
                   ELSE IF ev = EVT_MENU_TOGGLE THEN g.toggles + 1
                   ELSE g.toggles
    IN IF a /\ ~e.a_last
       THEN [ phase |-> "down", log |-> entry, b_before |-> e.b_last,
              b_during |-> b, b_rise_in_hold |-> FALSE,
              hold_in_menu |-> FALSE, toggles |-> toggles ]
       ELSE IF a
       THEN [g EXCEPT !.log = @ \o entry,
                      !.b_during = @ \/ b,
                      !.b_rise_in_hold =
                          @ \/ (b /\ ~e.b_last /\ HoldReached(t, e.a_press_time)),
                      !.hold_in_menu =
                          @ \/ (ev = EVT_A_HOLD /\ top_state = TOP_MENU),
                      !.toggles = toggles]
       ELSE IF e.a_last
       THEN [g EXCEPT !.phase = "released", !.log = @ \o entry,
                      !.toggles = toggles]
       ELSE [GestureInit EXCEPT !.toggles = toggles]

(* coordinator_update with its file-scope pointer made explicit.  A world  *)
(* w holds g_coord ("NULL" or the name of a coordinator), the coordinators *)
(* by name (each [coord, settings, offers]), the byte store they share,    *)
(* and the actions run by the update in progress, each with the value      *)
(* g_coord had when it ran.                                                *)
NullPtr == "NULL"

Coordinators == { "c1", "c2" }

(* The machine record of the coordinator `id` of world w. *)
WorldMachine(w, id) ==
    [ coord |-> w.devs[id].coord, settings |-> w.devs[id].settings,
      eeprom |-> w.eeprom, offers |-> w.devs[id].offers ]

WorldPut(w, id, m) ==
    [w EXCEPT !.devs[id] = [ coord |-> m.coord, settings |-> m.settings,
                             offers |-> m.offers ],
              !.eeprom = m.eeprom]

(* t.action() of a transition row: every action begins with               *)
(* `if (!g_coord) return;` and works on *g_coord.                          *)
PtrRunAction(w, name, t) ==
    LET ran == [w EXCEPT !.acted = Append(@, [ action |-> name,
                                               on |-> w.g_coord ])]
    IN IF name = NoAction THEN w
       ELSE IF w.g_coord = NullPtr THEN ran
       ELSE WorldPut(ran, w.g_coord,
                     RunAction(name, WorldMachine(ran, w.g_coord), t))

(* fsm_process_event on the FSM `which` of coordinator id. *)
PtrFsmProcessEvent(w, id, which, ev, t) ==
    LET fsm == w.devs[id].coord[which]
        w0 == [w EXCEPT !.devs[id].offers =
                            Append(@, [fsm |-> which, event |-> ev])]
        i == FsmFindRow(FsmTable(which), fsm.current_state, ev)
    IN IF ~fsm.active \/ i = 0
       THEN [ w |-> w0, handled |-> FALSE ]
       ELSE LET row == FsmTable(which)[i]
                w1 == PtrRunAction(w0, row.action, t)
            IN IF row.to_state = FSM_NO_TRANSITION
               THEN [ w |-> w1, handled |-> FALSE ]
               ELSE [ w |-> [w1 EXCEPT !.devs[id].coord[which].current_state =
                                           row.to_state],
                      handled |-> TRUE ]

(* Variant of coordinator_update_enter that leaves g_coord as it was.      *)
coordinator_update_enter_keeps_pointer(w, id) == w

(* Line 431: g_coord = coord. *)
coordinator_update_enter(w, id) == [w EXCEPT !.g_coord = id]

(* Lines 433-477: sample the inputs, produce the event, route it and       *)
(* inject the timeout. *)
coordinator_update_route(w, id, a, b, adc, t) ==
    LET c == w.devs[id].coord
        cv == CvInputUpdate(c.cv_input, adc)
        r == EventProcessorUpdate(c.events, a, b, cv.current_state, t)
        w1 == [w EXCEPT !.devs[id].coord.cv_input = cv,
                        !.devs[id].coord.events = r.ep,
                        !.devs[id].offers = << >>]
        top_state == c.top_fsm.current_state
        w2 == IF r.event # EVT_NONE /\ top_state = TOP_MENU
              THEN [w1 EXCEPT !.devs[id].coord.last_activity = t] ELSE w1
        top == PtrFsmProcessEvent(w2, id, "top_fsm", r.event, t)
        w3 == IF r.event = EVT_NONE THEN w1
              ELSE IF top.handled THEN top.w
              ELSE PtrFsmProcessEvent(top.w, id,
                                      Head(RouteTargets(top_state)),
                                      r.event, t).w
    IN IF w3.devs[id].coord.top_fsm.current_state = TOP_MENU
          /\ MenuTimedOut(t, w3.devs[id].coord.last_activity)
       THEN PtrFsmProcessEvent(w3, id, "top_fsm", EVT_TIMEOUT, t).w
       ELSE w3

(* Lines 479-507: run the mode handler, then g_coord = NULL. *)
coordinator_update_return(w, id, t) ==
    LET c == w.devs[id].coord
        in == ModeInput(c, w.devs[id].settings, c.cv_input.current_state)
        ctx == ModeHandlerProcess(c.mode_fsm.current_state, c.mode_ctx, in,
                                  w.devs[id].settings, t)
    IN [w EXCEPT !.devs[id].coord.mode_ctx = ctx,
                 !.devs[id].coord.output_state = ctx.output_state,
                 !.g_coord = NullPtr]

(* Two coordinators initialised and started at time 0 on an erased store,  *)
(* g_coord as its initialiser leaves it (line 199), no update running.     *)
SharedInit ==
    [ g_coord |-> NullPtr,
      devs |-> [ id \in Coordinators |->
                   [ coord |-> Startup(EepromErased, 0).coord,
                     settings |-> Startup(EepromErased, 0).settings,
                     offers |-> << >> ] ],
      eeprom |-> EepromErased,
      acted |-> << >>,
      pc |-> "idle", who |-> NullPtr, updates |-> 0,
      a |-> FALSE, b |-> FALSE, adc |-> 0 ]

-----------------------------------------------------------------------------
(* LED feedback controller (src/src/output/led_feedback.c).  A colour is   *)
(* <<r, g, b>>.  The animation engine (led_animation.c) is not among the   *)
(* sources; its operators follow the description of the two animations:    *)
(* blink toggles every half period, glow is a triangle wave over the       *)
(* period, a colour is scaled by (channel * brightness) / 255.             *)

ANIM_BLINK_PERIOD_MS == 500
ANIM_GLOW_PERIOD_MS == 1000

ANIM_NONE == "NONE"
ANIM_BLINK == "BLINK"
ANIM_GLOW == "GLOW"

ColorOff == << 0, 0, 0 >>

mode_colors ==
    << << 0, 255, 0 >>, << 0, 128, 255 >>, << 255, 64, 0 >>,
       << 255, 0, 255 >>, << 255, 255, 0 >> >>

global_color == << 255, 255, 255 >>

(* Indexed by page + 1; MODE_COUNT stands for the global pages. *)
page_mode_map ==
    << MODE_GATE, MODE_TRIGGER, MODE_TRIGGER, MODE_TOGGLE, MODE_DIVIDE,
       MODE_CYCLE, MODE_COUNT, MODE_COUNT >>

(* Indexed by page + 1: FALSE = blink, TRUE = glow. *)
page_anim_type ==
    << FALSE, FALSE, TRUE, FALSE, FALSE, FALSE, FALSE, TRUE >>

led_feedback_get_mode_color(mode) ==
    IF mode >= MODE_COUNT THEN ColorOff ELSE mode_colors[mode + 1]

led_feedback_get_page_color(page) ==
    IF page >= PAGE_COUNT THEN << 128, 128, 128 >>
    ELSE IF page_mode_map[page + 1] >= MODE_COUNT THEN global_color
    ELSE mode_colors[page_mode_map[page + 1] + 1]

led_color_scale(color, brightness) ==
    << (color[1] * brightness) \div 255, (color[2] * brightness) \div 255,
       (color[3] * brightness) \div 255 >>

led_animation_set(type, color, period_ms) ==
    [ type |-> type, base_color |-> color, period_ms |-> period_ms,
      last_update |-> 0, phase |-> 0, current_on |-> TRUE ]

led_animation_set_static(color) == led_animation_set(ANIM_NONE, color, 0)

led_animation_init == led_animation_set_static(ColorOff)

(* led_animation_update: the animation after the call made at time t. *)
led_animation_update(anim, t) ==
    IF anim.type = ANIM_BLINK
    THEN IF Sub32(t, anim.last_update) >= anim.period_ms \div 2
         THEN [anim EXCEPT !.current_on = ~@, !.last_update = t]
         ELSE anim
    ELSE IF anim.type = ANIM_GLOW
    THEN [anim EXCEPT !.phase = ((t % anim.period_ms) * 256) \div anim.period_ms]
    ELSE anim

(* The colour led_animation_update hands to the pixel. *)
AnimationPixel(anim) ==
    IF anim.type = ANIM_BLINK
    THEN IF anim.current_on THEN anim.base_color ELSE ColorOff
    ELSE IF anim.type = ANIM_GLOW
    THEN led_color_scale(anim.base_color,
                         IF anim.phase < 128 THEN anim.phase * 2
                         ELSE (255 - anim.phase) * 2)
    ELSE anim.base_color

(* The mode-LED animation of a menu page (lines 178-187, 210-219). *)
PageAnimation(page) ==
    IF page < PAGE_COUNT /\ page_anim_type[page + 1]
    THEN led_animation_set(ANIM_GLOW, led_feedback_get_page_color(page),
                           ANIM_GLOW_PERIOD_MS)
    ELSE led_animation_set(ANIM_BLINK, led_feedback_get_page_color(page),
                           ANIM_BLINK_PERIOD_MS)

led_feedback_set_mode(ctrl, mode) ==
    LET m == IF mode >= MODE_COUNT THEN 0 ELSE mode
        c == [ctrl EXCEPT !.current_mode = m]
    IN IF ~c.in_menu
       THEN [c EXCEPT !.mode_anim =
                          led_animation_set_static(led_feedback_get_mode_color(m))]
       ELSE c

led_feedback_init ==
    led_feedback_set_mode(
        [ mode_anim |-> led_animation_init, activity_anim |-> led_animation_init,
          in_menu |-> FALSE, current_mode |-> 0, current_page |-> 0,
          last_setting_value |-> 255 ], 0)

led_feedback_enter_menu(ctrl, page) ==
    [ctrl EXCEPT !.in_menu = TRUE, !.current_page = page,
                 !.last_setting_value = 255,
                 !.mode_anim = PageAnimation(page)]

(* Variant of led_feedback_exit_menu that leaves the mode LED's animation  *)
(* as the menu set it.                                                     *)
led_feedback_exit_menu_keeps_animation(ctrl) == [ctrl EXCEPT !.in_menu = FALSE]

led_feedback_exit_menu(ctrl) ==
    [ctrl EXCEPT !.in_menu = FALSE,
                 !.mode_anim = led_animation_set_static(
                                   led_feedback_get_mode_color(ctrl.current_mode))]

led_feedback_set_page(ctrl, page) ==
    LET pg == IF page >= PAGE_COUNT THEN 0 ELSE page
        c == [ctrl EXCEPT !.current_page = pg, !.last_setting_value = 255]
    IN IF c.in_menu THEN [c EXCEPT !.mode_anim = PageAnimation(pg)] ELSE c

(* Lines 96-116: the activity LED in perform mode. *)
PerformActivity(feedback) ==
    IF feedback.activity_brightness = 255
    THEN led_animation_set_static(feedback.activity)
    ELSE IF feedback.activity_brightness = 0
    THEN led_animation_set_static(ColorOff)
    ELSE led_animation_set_static(
             led_color_scale(feedback.activity, feedback.activity_brightness))

(* Lines 123-150: the activity LED in menu, re-picked when the setting     *)
(* value differs from the one last shown.                                  *)
MenuActivity(ctrl, feedback) ==
    LET page_color == led_feedback_get_page_color(ctrl.current_page)
        v == feedback.setting_value
    IN IF v = ctrl.last_setting_value THEN ctrl
       ELSE [ctrl EXCEPT
                !.last_setting_value = v,
                !.activity_anim =
                    IF v = 0 THEN led_animation_set_static(ColorOff)
                    ELSE IF v = 1 THEN led_animation_set_static(page_color)
                    ELSE IF v = 2
                    THEN led_animation_set(ANIM_BLINK, page_color,
                                           ANIM_BLINK_PERIOD_MS)
                    ELSE led_animation_set(ANIM_GLOW, page_color,
                                           ANIM_GLOW_PERIOD_MS)]

(* led_feedback_update (lines 66-156) with a controller and a descriptor   *)
(* that are not null.                                                      *)
led_feedback_update(ctrl, feedback, t) ==
    LET c1 == IF feedback.in_menu /\ ~ctrl.in_menu
              THEN led_feedback_enter_menu(ctrl, feedback.current_page)
              ELSE IF ~feedback.in_menu /\ ctrl.in_menu
              THEN led_feedback_exit_menu(ctrl)
              ELSE ctrl
        c2 == IF ~feedback.in_menu /\ feedback.current_mode # c1.current_mode
              THEN led_feedback_set_mode(c1, feedback.current_mode) ELSE c1
        c3 == IF feedback.in_menu /\ feedback.current_page # c2.current_page
              THEN led_feedback_set_page(c2, feedback.current_page) ELSE c2
        c4 == [c3 EXCEPT !.mode_anim = led_animation_update(@, t)]
        c5 == IF ~c4.in_menu
              THEN [c4 EXCEPT !.activity_anim = PerformActivity(feedback)]
              ELSE MenuActivity(c4, feedback)
    IN [c5 EXCEPT !.activity_anim = led_animation_update(@, t)]

(* A controller as led_feedback_init leaves it; no descriptor given yet. *)
LedRunInit ==
    [ ctrl |-> led_feedback_init,
      feedback |-> [ in_menu |-> FALSE, current_mode |-> 0, current_page |-> 0,
                     setting_value |-> 0, activity |-> ColorOff,
                     activity_brightness |-> 0 ],
      pixels |-> << ColorOff, ColorOff >>,
      updates |-> 0 ]

-----------------------------------------------------------------------------
(* The public calls with their pointer arguments.  An object is reached    *)
(* through a pointer that is either NullPtr or ObjPtr; objs holds the      *)
(* Coordinator (with its EventProcessor and AppSettings) and the           *)
(* LEDFeedbackController the pointers designate.  Every call gives         *)
(* [objs, ret]: the objects after it and the value returned (Void for a    *)
(* function returning nothing).                                            *)

ObjPtr == "OBJ"

Void == "VOID"

(* A pointer to an EventInput: no record, or the record it designates.     *)
NullInput == << >>

(* event_processor_update (events.c lines 21-151): EVT_NONE and no write   *)
(* when ep or input is null.                                               *)
event_processor_update(objs, ep, input) ==
    IF ep = NullPtr \/ input = NullInput
    THEN [ objs |-> objs, ret |-> EVT_NONE ]
    ELSE LET r == EventProcessorUpdate(objs.coord.events, input[1].button_a,
                                       input[1].button_b, input[1].cv_in,
                                       input[1].current_time)
         IN [ objs |-> [objs EXCEPT !.coord.events = r.ep], ret |-> r.event ]

(* event_processor_a_pressed, _b_pressed, _a_holding, _b_holding (lines    *)
(* 153-171).                                                               *)
event_processor_flag(objs, ep, flag) ==
    [ objs |-> objs,
      ret |-> IF ep = NullPtr THEN FALSE ELSE objs.coord.events[flag] ]

(* coordinator_set_mode (lines 520-525) behind its null guard (line 521).  *)
coordinator_set_mode(objs, p, mode, t) ==
    IF p = NullPtr THEN [ objs |-> objs, ret |-> Void ]
    ELSE [ objs |-> [objs EXCEPT !.coord =
                        CoordinatorSetMode(@, mode, objs.settings, t)],
           ret |-> Void ]

(* The coordinator's getters (lines 510-518, 527-540). *)
CoordinatorGetters ==
    { "get_top_state", "get_mode", "in_menu", "get_page", "get_output" }

coordinator_get(objs, p, getter) ==
    [ objs |-> objs,
      ret |->
        CASE getter = "get_top_state" ->
               IF p = NullPtr THEN TOP_PERFORM
               ELSE coordinator_get_top_state(objs.coord)
          [] getter = "get_mode" ->
               IF p = NullPtr THEN MODE_GATE
               ELSE coordinator_get_mode(objs.coord)
          [] getter = "in_menu" ->
               IF p = NullPtr THEN FALSE
               ELSE coordinator_get_top_state(objs.coord) = TOP_MENU
          [] getter = "get_page" ->
               IF p = NullPtr THEN PAGE_GATE_CV
               ELSE coordinator_get_page(objs.coord)
          [] getter = "get_output" ->
               IF p = NullPtr THEN FALSE ELSE objs.coord.output_state ]

(* led_feedback_set_mode (led_feedback.c lines 158-169) behind its null    *)
(* guard (line 159).                                                       *)
led_feedback_set_mode_call(objs, p, mode) ==
    IF p = NullPtr THEN [ objs |-> objs, ret |-> Void ]
    ELSE [ objs |-> [objs EXCEPT !.ctrl = led_feedback_set_mode(@, mode)],
           ret |-> Void ]

(* The objects after coordinator_init, coordinator_start and               *)
(* led_feedback_init.                                                      *)
ApiObjects ==
    [ coord |-> Startup(EepromErased, 0).coord,
      settings |-> Startup(EepromErased, 0).settings,
      ctrl |-> led_feedback_init ]

(* No call made yet. *)
ApiRunInit ==
    [ objs |-> ApiObjects, before |-> ApiObjects, ret |-> Void,
      call |-> [ name |-> "none", ctx |-> ObjPtr, arg |-> 0 ],
      calls |-> 0 ]

(* The watchdog as the simulator's HAL keeps it: whether it is enabled,    *)
(* the time it was last fed and whether it has fired.                      *)
SIM_WDT_TIMEOUT_MS == 250

WdtOff == [ enabled |-> FALSE, last_reset_time |-> 0, fired |-> FALSE ]

sim_wdt_enable(w, t) ==
    [ enabled |-> TRUE, last_reset_time |-> t, fired |-> FALSE ]

sim_wdt_reset(w, t) ==
    IF w.enabled THEN [w EXCEPT !.last_reset_time = t] ELSE w

(* check_watchdog, run by advance_time and delay_ms once the time is t. *)
check_watchdog(w, t) ==
    IF w.enabled /\ ~w.fired /\ Sub32(t, w.last_reset_time) >= SIM_WDT_TIMEOUT_MS
    THEN [w EXCEPT !.fired = TRUE]
    ELSE w

(* The watchdog with the number of times the last iteration fed it. *)
WdtRunInit(w) == [ hw |-> w, feeds |-> 0 ]

(* Variant of LoopHead that does not feed the watchdog. *)
LoopHead_no_feed(w, t) == w

(* The first statement of an iteration of main's loop, at time t. *)
LoopHead(w, t) == [ hw |-> sim_wdt_reset(w.hw, t), feeds |-> w.feeds + 1 ]

(* Top state, mode, page, output, settings and store a tick starts from,   *)
(* kept for stating properties; the program does not read it.              *)
PriorOf(c, s, ee) ==
    [ top |-> coordinator_get_top_state(c), mode |-> coordinator_get_mode(c),
      page |-> coordinator_get_page(c), output |-> c.output_state,
      settings |-> s, eeprom |-> ee, a_hold |-> c.events.a_hold ]

(* A device powered up on an erased store that has been left alone up to   *)
(* time t: in gate mode nothing of its state moves with the timer.         *)
IdleDevice(t) ==
    [ now |-> t,
      coord |-> Startup(EepromErased, 0).coord,
      settings |-> Startup(EepromErased, 0).settings,
      eeprom |-> EepromErased,
      event |-> EVT_NONE ]

(* The components that are exercised on their own, as they are when       *)
(* nothing has used them; busy names the ones a specification starts or    *)
(* steps itself.                                                           *)
ComponentsAtRest(busy) ==
    /\ IF "reset" \in busy THEN TRUE ELSE reset = ResetCheckReturned
    /\ IF "cv_in" \in busy THEN TRUE ELSE cv_in = CvRunInit(CvInputInit)
    /\ IF "button" \in busy THEN TRUE ELSE button = ButtonRunInit
    /\ IF "cv_output" \in busy THEN TRUE ELSE cv_output = CvOutputRunInit
    /\ IF "machine" \in busy THEN TRUE ELSE machine = MachineInit(1, 0)
    /\ IF "unwrapped" \in busy THEN TRUE ELSE unwrapped = IdleDevice(0)
    /\ IF "wdt" \in busy THEN TRUE ELSE wdt = WdtRunInit(WdtOff)
    /\ IF "shared" \in busy THEN TRUE ELSE shared = SharedInit
    /\ IF "led" \in busy THEN TRUE ELSE led = LedRunInit
    /\ IF "api" \in busy THEN TRUE ELSE api = ApiRunInit

ComponentsUnchanged(busy) ==
    /\ IF "reset" \in busy THEN TRUE ELSE UNCHANGED reset
    /\ IF "cv_in" \in busy THEN TRUE ELSE UNCHANGED cv_in
    /\ IF "button" \in busy THEN TRUE ELSE UNCHANGED button
    /\ IF "cv_output" \in busy THEN TRUE ELSE UNCHANGED cv_output
    /\ IF "machine" \in busy THEN TRUE ELSE UNCHANGED machine
    /\ IF "unwrapped" \in busy THEN TRUE ELSE UNCHANGED unwrapped
    /\ IF "wdt" \in busy THEN TRUE ELSE UNCHANGED wdt
    /\ IF "shared" \in busy THEN TRUE ELSE UNCHANGED shared
    /\ IF "led" \in busy THEN TRUE ELSE UNCHANGED led
    /\ IF "api" \in busy THEN TRUE ELSE UNCHANGED api

(* The variables the tick loop leaves alone, as main leaves them when the  *)
(* loop is entered.                                                        *)
AtLoopEntry ==
    /\ init_result = AppInitRunResult(eeprom)
    /\ ops = << >>
    /\ ComponentsAtRest({})

Init ==
    /\ now = 0
    /\ eeprom \in BootImages
    /\ coord = Startup(eeprom, now).coord
    /\ settings = Startup(eeprom, now).settings
    /\ event = EVT_NONE
    /\ offers = << >>
    /\ input_state = FALSE
    /\ gesture = GestureInit
    /\ prior = PriorOf(coord, settings, eeprom)
    /\ ticks = 0
    /\ AtLoopEntry

(* The loop iterates once per millisecond.  An iteration in which the      *)
(* inputs are those of the iteration before and no timer of the core       *)
(* expires changes nothing but the time, so the model takes a run of such  *)
(* iterations together with the iteration that ends it as one step: a step *)
(* advances the timer by 1 ms, or up to the next expiry of a running timer *)
(* (hold thresholds, menu timeout, output pulse, cycle half-period).       *)

(* Milliseconds left on a timer started at `start` that runs `len` ms;     *)
(* 0 when it has run out.                                                  *)
Remaining(t, start, len) ==
    IF Sub32(t, start) < len THEN len - Sub32(t, start) ELSE 0

RunningTimers ==
    LET e == coord.events
        ctx == coord.mode_ctx
        mode == coord.mode_fsm.current_state
    IN ( IF e.a_pressed /\ ~e.a_hold
         THEN { Remaining(now, e.a_press_time, EP_HOLD_THRESHOLD_MS) } ELSE {} )
       \cup
       ( IF e.b_pressed /\ ~e.b_hold
         THEN { Remaining(now, e.b_press_time, EP_HOLD_THRESHOLD_MS) } ELSE {} )
       \cup
       ( IF coord.top_fsm.current_state = TOP_MENU
         THEN { Remaining(now, coord.last_activity, MENU_TIMEOUT_MS) } ELSE {} )
       \cup
       ( IF mode = MODE_TRIGGER /\ ctx.output_state
         THEN { Remaining(now, ctx.pulse_start, ctx.pulse_duration_ms) } ELSE {} )
       \cup
       ( IF mode = MODE_DIVIDE /\ ctx.output_state
         THEN { Remaining(now, ctx.pulse_start, OUTPUT_PULSE_MS) } ELSE {} )
       \cup
       ( IF mode = MODE_CYCLE
         THEN { Remaining(now, ctx.last_toggle, ctx.period_ms \div 2) } ELSE {} )

TickDeltas ==
    LET pending == { d \in RunningTimers : d > 0 }
    IN {1} \cup { d \in pending : \A o \in pending : d <= o }

(* One step of the loop: the timer has advanced by dt, the pins read a and *)
(* b (TRUE = pressed), the ADC reads adc, and coordinator_update runs.     *)
TickStep(a, b, adc, dt) ==
    /\ \E r \in { CoordinatorUpdate([ coord |-> coord, settings |-> settings,
                                       eeprom |-> eeprom, offers |-> << >> ],
                                     a, b, adc, Add32(now, dt)) } :
          /\ now' = Add32(now, dt)
          /\ coord' = r.m.coord
          /\ settings' = r.m.settings
          /\ eeprom' = r.m.eeprom
          /\ offers' = r.m.offers
          /\ event' = r.event
          /\ input_state' = r.input_state
          /\ gesture' = GestureUpdate(gesture, coord.events,
                                      coordinator_get_top_state(coord),
                                      a, b, r.event, Add32(now, dt))
    /\ prior' = PriorOf(coord, settings, eeprom)
    /\ ticks' = ticks + 1

Tick(a, b, adc, dt) ==
    /\ TickStep(a, b, adc, dt)
    /\ UNCHANGED libvars

Next ==
    /\ ticks < MaxTicks
    /\ \E a \in BOOLEAN, b \in BOOLEAN, adc \in AdcSamples, dt \in TickDeltas :
          Tick(a, b, adc, dt)

Spec == Init /\ [][Next]_vars

(* The same loop followed for more steps, from a device powered up on an   *)
(* erased store and with the CV input held low.                            *)
InitQuiet == Init /\ eeprom = EepromErased

NextQuiet ==
    /\ ticks < MaxQuietTicks
    /\ \E a \in BOOLEAN, b \in BOOLEAN, adc \in QuietSamples, dt \in TickDeltas :
          Tick(a, b, adc, dt)

SpecQuiet == InitQuiet /\ [][NextQuiet]_vars

(* The same loop from a device powered up on a record saved in each of the *)
(* five modes, with the toggle edge set either way.                        *)
ModeImages ==
    { AppInitSaveSettings(EepromErased,
                          [AppInitGetDefaults EXCEPT !.mode = mode,
                                                     !.toggle_edge = edge]) :
        mode \in 0..(MODE_COUNT - 1), edge \in {0, 1} }

InitModes ==
    /\ now = 0
    /\ eeprom \in ModeImages
    /\ coord = Startup(eeprom, now).coord
    /\ settings = Startup(eeprom, now).settings
    /\ event = EVT_NONE
    /\ offers = << >>
    /\ input_state = FALSE
    /\ gesture = GestureInit
    /\ prior = PriorOf(coord, settings, eeprom)
    /\ ticks = 0
    /\ AtLoopEntry

NextModes ==
    /\ ticks < MaxModeTicks
    /\ \E a \in BOOLEAN, b \in BOOLEAN, adc \in AdcSamples, dt \in TickDeltas :
          Tick(a, b, adc, dt)

SpecModes == InitModes /\ [][NextModes]_vars

(* The same loop from a device in the menu.  The device was powered up on  *)
(* a saved record, in any mode and with every setting at its first or at   *)
(* its last value, the mode was left alone or advanced once, the menu was  *)
(* entered and the page was reached by taps of A; both buttons are up.     *)
MenuRecords ==
    { [ mode |-> mode,
        trigger_pulse_idx |-> last * (TRIGGER_PULSE_COUNT - 1),
        trigger_edge |-> last * (TRIGGER_EDGE_COUNT - 1),
        divide_divisor_idx |-> last * (DIVIDE_DIVISOR_COUNT - 1),
        cycle_tempo_idx |-> last * (CYCLE_TEMPO_COUNT - 1),
        toggle_edge |-> last * (TOGGLE_EDGE_COUNT - 1),
        gate_a_mode |-> last * (GATE_A_MODE_COUNT - 1),
        reserved |-> 0 ] :
        mode \in 0..(MODE_COUNT - 1), last \in {0, 1} }

(* A store written by a firmware whose trigger pulse has one more value:   *)
(* magic, schema and checksum are right, the pulse index is out of range.  *)
ForeignImage ==
    AppInitSaveSettings(EepromErased,
                        [AppInitGetDefaults EXCEPT
                            !.trigger_pulse_idx = TRIGGER_PULSE_COUNT])

InMenuAt(c, page, t) ==
    [c EXCEPT !.top_fsm.current_state = TOP_MENU,
              !.menu_fsm.current_state = page,
              !.menu_entry_mode = coordinator_get_mode(c),
              !.menu_enter_time = t,
              !.last_activity = t]

InitMenu ==
    /\ now = 0
    /\ eeprom \in { AppInitSaveSettings(EepromErased, s) : s \in MenuRecords }
                  \cup { EepromErased, ForeignImage }
    /\ \E page \in 0..(PAGE_COUNT - 1), advanced \in BOOLEAN :
          LET m0 == [ coord |-> Startup(eeprom, now).coord,
                      settings |-> Startup(eeprom, now).settings,
                      eeprom |-> eeprom, offers |-> << >> ]
              m1 == IF advanced THEN action_next_mode(m0, now) ELSE m0
          IN coord = InMenuAt(m1.coord, page, now)
    /\ settings = Startup(eeprom, now).settings
    /\ event = EVT_NONE
    /\ offers = << >>
    /\ input_state = FALSE
    /\ gesture = GestureInit
    /\ prior = PriorOf(coord, settings, eeprom)
    /\ ticks = 0
    /\ AtLoopEntry

NextMenu ==
    /\ ticks < MaxMenuTicks
    /\ \E a \in BOOLEAN, b \in BOOLEAN, adc \in QuietSamples, dt \in TickDeltas :
          Tick(a, b, adc, dt)

SpecMenu == InitMenu /\ [][NextMenu]_vars

-----------------------------------------------------------------------------
(* The settings store on its own: after power-up, records are saved, bytes *)
(* of the store are overwritten from outside (a worn or foreign store),    *)
(* and app_init_run loads the store again, in any order.                   *)

(* Records handed to app_init_save_settings: the defaults, the record of   *)
(* TestInitWithValidSettings, and every field at its last value.           *)
SaveRecords ==
    { AppInitGetDefaults,
      [ mode |-> MODE_TRIGGER, trigger_pulse_idx |-> 1, trigger_edge |-> 0,
        divide_divisor_idx |-> 2, cycle_tempo_idx |-> 3, toggle_edge |-> 0,
        gate_a_mode |-> 0, reserved |-> 0 ],
      [ mode |-> MODE_COUNT - 1,
        trigger_pulse_idx |-> TRIGGER_PULSE_COUNT - 1,
        trigger_edge |-> TRIGGER_EDGE_COUNT - 1,
        divide_divisor_idx |-> DIVIDE_DIVISOR_COUNT - 1,
        cycle_tempo_idx |-> CYCLE_TEMPO_COUNT - 1,
        toggle_edge |-> TOGGLE_EDGE_COUNT - 1,
        gate_a_mode |-> GATE_A_MODE_COUNT - 1, reserved |-> 255 ] }

(* Addresses and byte values of the overwrites: the magic, the schema, the *)
(* mode and gate-A-mode fields and the checksum.                           *)
OverwriteAddrs ==
    { EEPROM_MAGIC_ADDR, EEPROM_SCHEMA_ADDR, EEPROM_SETTINGS_ADDR,
      EEPROM_SETTINGS_ADDR + 6, EEPROM_CHECKSUM_ADDR }

OverwriteBytes == {0, 4, 5, 255}

StoreStep(op) ==
    /\ ticks < MaxStoreSteps
    /\ ticks' = ticks + 1
    /\ ops' = Append(ops, op)
    /\ prior' = PriorOf(coord, settings, eeprom)
    /\ UNCHANGED <<now, coord, event, offers, input_state, gesture, components>>

SaveSettings(s) ==
    /\ StoreStep("app_init_save_settings")
    /\ settings' = s
    /\ eeprom' = AppInitSaveSettings(eeprom, s)
    /\ UNCHANGED init_result

OverwriteByte(addr, byte) ==
    /\ StoreStep("eeprom_write_byte")
    /\ eeprom' = [eeprom EXCEPT ![addr] = byte]
    /\ UNCHANGED <<settings, init_result>>

LoadSettings ==
    /\ StoreStep("app_init_run")
    /\ settings' = AppInitRun(eeprom)
    /\ init_result' = AppInitRunResult(eeprom)
    /\ UNCHANGED eeprom

NextStore ==
    \/ \E s \in SaveRecords : SaveSettings(s)
    \/ \E addr \in OverwriteAddrs, byte \in OverwriteBytes :
          OverwriteByte(addr, byte)
    \/ LoadSettings

SpecStore == Init /\ [][NextStore]_vars

-----------------------------------------------------------------------------
(* The factory-reset check on its own, from power-up: the buttons are read *)
(* as the user holds or releases them and every delay runs with the timer  *)
(* working or stopped.                                                     *)

(* The application at power-up with an erased store, before any input. *)
AppAtRest ==
    /\ now = 0
    /\ eeprom = EepromErased
    /\ coord = Startup(eeprom, now).coord
    /\ settings = Startup(eeprom, now).settings
    /\ event = EVT_NONE
    /\ offers = << >>
    /\ input_state = FALSE
    /\ gesture = GestureInit
    /\ prior = PriorOf(coord, settings, eeprom)
    /\ ticks = 0
    /\ init_result = AppInitRunResult(eeprom)
    /\ ops = << >>

(* What a component leaves alone apart from the timer. *)
appvars ==
    <<coord, settings, eeprom, event, offers, input_state, gesture, prior,
      ticks, init_result, ops>>

InitReset ==
    /\ AppAtRest
    /\ reset = ResetCheckInit
    /\ ComponentsAtRest({"reset"})

ResetFrame ==
    /\ UNCHANGED appvars
    /\ ComponentsUnchanged({"reset"})

ResetEntryStep(a, b, adv) ==
    /\ reset.pc = "entry"
    /\ now' = Add32(now, adv)
    /\ reset' = ResetCheckEntry(reset, a, b, now, now')
    /\ ResetFrame

ResetPollStep(a, b, adv) ==
    /\ reset.pc = "loop"
    /\ ResetLoopContinues(reset, now)
    /\ reset' = ResetCheckPoll(reset, a, b, now)
    /\ now' = IF reset'.pc = "done" THEN now ELSE Add32(now, adv)
    /\ ResetFrame

ResetCompleteStep(adv) ==
    /\ reset.pc = "loop"
    /\ ~ResetLoopContinues(reset, now)
    /\ reset' = ResetCheckComplete(reset)
    /\ now' = Add32(now, adv)
    /\ ResetFrame

NextReset ==
    \/ \E a \in BOOLEAN, b \in BOOLEAN, adv \in DelayAdvances(10) :
          ResetEntryStep(a, b, adv)
    \/ \E a \in BOOLEAN, b \in BOOLEAN,
           adv \in DelayAdvances(APP_INIT_RESET_POLL_MS) :
          ResetPollStep(a, b, adv)
    \/ \E adv \in DelayAdvances(500) : ResetCompleteStep(adv)

SpecReset == InitReset /\ [][NextReset]_vars

(* The function is sequential code: it keeps running until it returns.    *)
FairSpecReset == SpecReset /\ WF_vars(NextReset)

-----------------------------------------------------------------------------
(* A CVInput on its own: initialised with the default or with custom       *)
(* thresholds and then fed samples.  Any samples are fed for MaxCvSamples  *)
(* updates; the sequence of the hysteresis example is followed to its end. *)

MaxCvSamples == 3

HysteresisSamples == <<100, 120, 128, 129, 80, 78, 77, 76, 128>>

CvSampleValues == {0, 76, 77, 78, 80, 100, 101, 120, 128, 129, 255}

CvThresholds == { <<CV_DEFAULT_HIGH_THRESHOLD, CV_DEFAULT_LOW_THRESHOLD>>, <<100, 80>> }

IsPrefix(p, q) == Len(p) <= Len(q) /\ SubSeq(q, 1, Len(p)) = p

InitCv ==
    /\ AppAtRest
    /\ \E th \in CvThresholds : cv_in = CvRunInit(CvInputInitCustom(th[1], th[2]))
    /\ ComponentsAtRest({"cv_in"})

CvSample(adc_value) ==
    /\ \/ Len(cv_in.samples) < MaxCvSamples
       \/ IsPrefix(Append(cv_in.samples, adc_value), HysteresisSamples)
    /\ LET c == CvInputUpdate(cv_in.input, adc_value)
       IN cv_in' = [ input |-> c,
                  samples |-> Append(cv_in.samples, adc_value),
                  levels |-> Append(cv_in.levels, c.current_state) ]
    /\ UNCHANGED <<now, appvars>>
    /\ ComponentsUnchanged({"cv_in"})

NextCv == \E adc_value \in CvSampleValues : CvSample(adc_value)

SpecCv == InitCv /\ [][NextCv]_vars

-----------------------------------------------------------------------------
(* A Button on its own: initialised at power-up and updated with the pin   *)
(* pressed or released, one or several milliseconds after the update       *)
(* before.                                                                 *)

MaxButtonUpdates == 4

ButtonDeltas == {1, 4, 6}

InitButton ==
    /\ AppAtRest
    /\ button = ButtonRunInit
    /\ ComponentsAtRest({"button"})

ButtonTick(raw_pressed, dt) ==
    /\ button.updates < MaxButtonUpdates
    /\ now' = Add32(now, dt)
    /\ button' = [ btn |-> ButtonUpdate(button.btn, raw_pressed, now'),
                   before |-> button.btn,
                   updates |-> button.updates + 1 ]
    /\ UNCHANGED appvars
    /\ ComponentsUnchanged({"button"})

NextButton ==
    \E raw_pressed \in BOOLEAN, dt \in ButtonDeltas : ButtonTick(raw_pressed, dt)

SpecButton == InitButton /\ [][NextButton]_vars

-----------------------------------------------------------------------------
(* A CVOutput on its own in pulse mode: updated once per millisecond tick  *)
(* with the input high or low.                                             *)

MaxPulseTicks == 14

InitPulse ==
    /\ AppAtRest
    /\ cv_output = CvOutputRunInit
    /\ ComponentsAtRest({"cv_output"})

PulseTick(input) ==
    /\ now < MaxPulseTicks
    /\ now' = Add32(now, 1)
    /\ LET rising == input /\ ~cv_output.out.last_in
           retrigger ==
               /\ cv_output.edge_seen
               /\ Sub32(now', cv_output.pulse_edge) < PULSE_DURATION_MS
           begins == rising /\ ~retrigger
       IN cv_output' =
              [ out |-> CvOutputUpdatePulse(cv_output.out, input, now'),
                edge_seen |-> cv_output.edge_seen \/ begins,
                pulse_edge |-> IF begins THEN now' ELSE cv_output.pulse_edge ]
    /\ UNCHANGED appvars
    /\ ComponentsUnchanged({"cv_output"})

NextPulse == \E input \in BOOLEAN : PulseTick(input)

SpecPulse == InitPulse /\ [][NextPulse]_vars

-----------------------------------------------------------------------------
(* An FSM with callbacks on its own: initialised on one of the tables,     *)
(* then started, stopped and given events in any order.                    *)

MaxMachineSteps == 4

InitMachine ==
    /\ AppAtRest
    /\ \E table \in {1, 2}, initial \in {0, 1} :
           machine = MachineInit(table, initial)
    /\ ComponentsAtRest({"machine"})

MachineStep(op, ev, r, changed) ==
    /\ machine.steps < MaxMachineSteps
    /\ machine' = [ machine EXCEPT !.fsm = r.fsm, !.before = machine.fsm,
                                   !.op = op, !.event = ev, !.calls = r.calls,
                                   !.changed = changed, !.steps = @ + 1 ]
    /\ UNCHANGED <<now, appvars>>
    /\ ComponentsUnchanged({"machine"})

MachineStart ==
    MachineStep("fsm_start", 0, FsmEngineStart(machine.fsm, MachineStates), FALSE)

MachineStop ==
    MachineStep("fsm_stop", 0, FsmEngineStop(machine.fsm, MachineStates), FALSE)

MachineProcessEvent(ev) ==
    LET r == FsmEngineProcessEvent(machine.fsm, MachineStates,
                                   MachineTransitions(machine.table), ev)
    IN MachineStep("fsm_process_event", ev, r, r.changed)

NextMachine ==
    \/ MachineStart
    \/ MachineStop
    \/ \E ev \in MachineEvents : MachineProcessEvent(ev)

SpecMachine == InitMachine /\ [][NextMachine]_vars

-----------------------------------------------------------------------------
(* The tick loop of a device that has been left alone until shortly before *)
(* the millisecond counter wraps, next to the same device left alone for a *)
(* short time only and then given the same inputs at the same intervals.   *)

MaxWrapTicks == 6

(* Milliseconds left before the counter wraps when the inputs begin. *)
WrapLeads == {2, 300, 1000}

(* The time the inputs begin at on the device far from the wrap. *)
UnwrappedStart == 1000

InitWrap ==
    /\ \E lead \in WrapLeads : now = TimerModulus - lead
    /\ eeprom = IdleDevice(now).eeprom
    /\ coord = IdleDevice(now).coord
    /\ settings = IdleDevice(now).settings
    /\ event = EVT_NONE
    /\ offers = << >>
    /\ input_state = FALSE
    /\ gesture = GestureInit
    /\ prior = PriorOf(coord, settings, eeprom)
    /\ ticks = 0
    /\ init_result = AppInitRunResult(eeprom)
    /\ ops = << >>
    /\ unwrapped = IdleDevice(UnwrappedStart)
    /\ ComponentsAtRest({"unwrapped"})

WrapTick(a, b, adc, dt) ==
    /\ TickStep(a, b, adc, dt)
    /\ \E r \in { CoordinatorUpdate([ coord |-> unwrapped.coord,
                                       settings |-> unwrapped.settings,
                                       eeprom |-> unwrapped.eeprom,
                                       offers |-> << >> ],
                                     a, b, adc, unwrapped.now + dt) } :
          unwrapped' = [ now |-> unwrapped.now + dt,
                         coord |-> r.m.coord,
                         settings |-> r.m.settings,
                         eeprom |-> r.m.eeprom,
                         event |-> r.event ]
    /\ UNCHANGED <<init_result, ops>>
    /\ ComponentsUnchanged({"unwrapped"})

NextWrap ==
    /\ ticks < MaxWrapTicks
    /\ \E a \in BOOLEAN, b \in BOOLEAN, adc \in QuietSamples, dt \in TickDeltas :
          WrapTick(a, b, adc, dt)

SpecWrap == InitWrap /\ [][NextWrap]_vars

-----------------------------------------------------------------------------
(* The tick loop with the watchdog enabled, iterating once per millisecond *)
(* for longer than the watchdog's timeout.  The user moves the buttons and *)
(* the CV input during the first iterations and then leaves them as they   *)
(* are.                                                                    *)

MaxWdtIterations == 260

(* Iterations during which the inputs may change. *)
WdtBusyIterations == 2

InitWdt ==
    /\ now = 0
    /\ eeprom \in BootImages
    /\ coord = Startup(eeprom, now).coord
    /\ settings = Startup(eeprom, now).settings
    /\ event = EVT_NONE
    /\ offers = << >>
    /\ input_state = FALSE
    /\ gesture = GestureInit
    /\ prior = PriorOf(coord, settings, eeprom)
    /\ ticks = 0
    /\ init_result = AppInitRunResult(eeprom)
    /\ ops = << >>
    /\ wdt = WdtRunInit(sim_wdt_enable(WdtOff, now))
    /\ ComponentsAtRest({"wdt"})

(* The inputs stay as the iteration before read them. *)
InputsHeld(a, b, adc) ==
    /\ a = coord.events.a_last
    /\ b = coord.events.b_last
    /\ (adc \in QuietSamples) = ~coord.cv_input.current_state

(* advance_time(1) at the end of an iteration, then the next iteration:    *)
(* the watchdog is fed and coordinator_update runs.                        *)
LoopIteration(a, b, adc) ==
    /\ TickStep(a, b, adc, 1)
    /\ wdt' = LoopHead(WdtRunInit(check_watchdog(wdt.hw, now')), now')
    /\ UNCHANGED <<init_result, ops>>
    /\ ComponentsUnchanged({"wdt"})

NextWdt ==
    /\ ticks < MaxWdtIterations
    /\ \E a \in BOOLEAN, b \in BOOLEAN, adc \in AdcSamples :
          /\ ticks >= WdtBusyIterations => InputsHeld(a, b, adc)
          /\ LoopIteration(a, b, adc)

SpecWdt == InitWdt /\ [][NextWdt]_vars

-----------------------------------------------------------------------------
(* Two coordinators on one HAL, updated in any order, and calls of         *)
(* coordinator_update with a null pointer.  An update is followed through  *)
(* three positions: entered (g_coord assigned), routed (event dispatched   *)
(* and timeout tested), returned.                                          *)

MaxPtrUpdates == 4

(* Time between two updates: 1 ms, or the hold threshold while a button    *)
(* read by the update before is down.                                      *)
PtrDeltas ==
    {1} \cup IF shared.a \/ shared.b THEN { EP_HOLD_THRESHOLD_MS } ELSE {}

InitPtr ==
    /\ AppAtRest
    /\ shared = SharedInit
    /\ ComponentsAtRest({"shared"})

PtrFrame ==
    /\ UNCHANGED appvars
    /\ ComponentsUnchanged({"shared"})

(* coordinator_update(NULL): line 428 returns at once. *)
PtrUpdateNull ==
    /\ shared.pc = "idle"
    /\ shared.updates < MaxPtrUpdates
    /\ UNCHANGED now
    /\ shared' = [shared EXCEPT !.who = NullPtr, !.acted = << >>,
                                !.updates = @ + 1]
    /\ PtrFrame

PtrUpdateEnter(id, a, b, adc, dt) ==
    /\ shared.pc = "idle"
    /\ shared.updates < MaxPtrUpdates
    /\ now' = Add32(now, dt)
    /\ shared' = [coordinator_update_enter(shared, id) EXCEPT
                      !.pc = "entered", !.who = id, !.acted = << >>,
                      !.updates = @ + 1, !.a = a, !.b = b, !.adc = adc]
    /\ PtrFrame

PtrUpdateRoute ==
    /\ shared.pc = "entered"
    /\ shared' = [coordinator_update_route(shared, shared.who, shared.a,
                                           shared.b, shared.adc, now)
                      EXCEPT !.pc = "routed"]
    /\ UNCHANGED now
    /\ PtrFrame

PtrUpdateReturn ==
    /\ shared.pc = "routed"
    /\ shared' = [coordinator_update_return(shared, shared.who, now)
                      EXCEPT !.pc = "idle"]
    /\ UNCHANGED now
    /\ PtrFrame

NextPtr ==
    \/ PtrUpdateNull
    \/ \E id \in Coordinators, a \in BOOLEAN, b \in BOOLEAN,
           adc \in QuietSamples, dt \in PtrDeltas :
          PtrUpdateEnter(id, a, b, adc, dt)
    \/ PtrUpdateRoute
    \/ PtrUpdateReturn

SpecPtr == InitPtr /\ [][NextPtr]_vars

-----------------------------------------------------------------------------
(* An LEDFeedbackController on its own, updated with descriptors as        *)
(* coordinator_get_led_feedback fills them: any mode, any page, in menu or *)
(* not, in any order.                                                      *)

MaxLedUpdates == 3

(* Time between two updates: half the blink period, a quarter of the glow  *)
(* period.                                                                 *)
LedDeltas == { ANIM_BLINK_PERIOD_MS \div 2 }

(* Setting values shown on the activity LED in menu. *)
LedSettingValues == { 0, 2 }

(* Activity brightness given by the mode handler in perform mode. *)
LedBrightness == { 128 }

LedDescriptors ==
    [ in_menu : BOOLEAN, current_mode : 0..(MODE_COUNT - 1),
      current_page : 0..(PAGE_COUNT - 1), setting_value : LedSettingValues,
      activity : { global_color }, activity_brightness : LedBrightness ]

InitLed ==
    /\ AppAtRest
    /\ led = LedRunInit
    /\ ComponentsAtRest({"led"})

LedUpdate(feedback, dt) ==
    /\ led.updates < MaxLedUpdates
    /\ now' = Add32(now, dt)
    /\ \E c \in { led_feedback_update(led.ctrl, feedback, now') } :
          led' = [ ctrl |-> c, feedback |-> feedback,
                   pixels |-> << AnimationPixel(c.mode_anim),
                                 AnimationPixel(c.activity_anim) >>,
                   updates |-> led.updates + 1 ]
    /\ UNCHANGED appvars
    /\ ComponentsUnchanged({"led"})

NextLed ==
    \E feedback \in LedDescriptors, dt \in LedDeltas : LedUpdate(feedback, dt)

SpecLed == InitLed /\ [][NextLed]_vars

-----------------------------------------------------------------------------
(* The public calls made one at a time on a started coordinator and an     *)
(* initialised LED controller, each with a valid or a null pointer and     *)
(* with mode ordinals inside and outside the enumeration.                  *)

MaxApiCalls == 3

Pointers == { NullPtr, ObjPtr }

(* Mode ordinals passed: two modes, the first ordinal outside the          *)
(* enumeration, and the largest uint8_t.                                   *)
ApiOrdinals == { MODE_TRIGGER, MODE_DIVIDE, MODE_COUNT, 255 }

(* EventInput records passed, or no record. *)
ApiInputs ==
    { NullInput } \cup
    { << i >> : i \in [ button_a : BOOLEAN, button_b : { FALSE },
                        cv_in : { FALSE }, current_time : { 0 } ] }

ApiFlags == { "a_pressed", "b_pressed", "a_hold", "b_hold" }

InitApi ==
    /\ AppAtRest
    /\ api = ApiRunInit
    /\ ComponentsAtRest({"api"})

(* One call: r is its outcome. *)
ApiCall(name, p, arg, r) ==
    /\ api.calls < MaxApiCalls
    /\ api' = [ objs |-> r.objs, before |-> api.objs, ret |-> r.ret,
                call |-> [ name |-> name, ctx |-> p, arg |-> arg ],
                calls |-> api.calls + 1 ]
    /\ UNCHANGED <<now, appvars>>
    /\ ComponentsUnchanged({"api"})

CallEventProcessorUpdate(ep, input) ==
    \E r \in { event_processor_update(api.objs, ep, input) } :
        ApiCall("event_processor_update", ep, input, r)

CallEventProcessorFlag(ep, flag) ==
    \E r \in { event_processor_flag(api.objs, ep, flag) } :
        ApiCall("event_processor_flag", ep, flag, r)

CallCoordinatorSetMode(p, mode) ==
    \E r \in { coordinator_set_mode(api.objs, p, mode, now) } :
        ApiCall("coordinator_set_mode", p, mode, r)

CallCoordinatorGet(p, getter) ==
    \E r \in { coordinator_get(api.objs, p, getter) } :
        ApiCall(getter, p, 0, r)

CallLedFeedbackSetMode(p, mode) ==
    \E r \in { led_feedback_set_mode_call(api.objs, p, mode) } :
        ApiCall("led_feedback_set_mode", p, mode, r)

NextApi ==
    \/ \E ep \in Pointers, input \in ApiInputs :
          CallEventProcessorUpdate(ep, input)
    \/ \E ep \in Pointers, flag \in ApiFlags : CallEventProcessorFlag(ep, flag)
    \/ \E p \in Pointers, mode \in ApiOrdinals : CallCoordinatorSetMode(p, mode)
    \/ \E p \in Pointers, getter \in CoordinatorGetters :
          CallCoordinatorGet(p, getter)
    \/ \E p \in Pointers, mode \in ApiOrdinals : CallLedFeedbackSetMode(p, mode)

SpecApi == InitApi /\ [][NextApi]_vars

-----------------------------------------------------------------------------
(* Properties of the event processor *)

(* Both buttons have been down since their presses, A's press carries the  *)
(* smaller time stamp, and this step is the first on which B, still down   *)
(* together with A, has been held for the hold threshold.                  *)
BReachesHoldAfterA ==
    /\ coord.events.a_last /\ coord.events.b_last
    /\ ~coord.events.b_hold
    /\ coord.events.a_press_time < coord.events.b_press_time
    /\ coord'.events.a_pressed /\ coord'.events.b_pressed
    /\ HoldReached(now', coord.events.b_press_time)

(* C1 as stated: when A is pressed first, B later, and both stay held, the *)
(* tick on which B's held time first reaches 500 ms emits menu-toggle.     *)
C1_AsStated ==
    [][BReachesHoldAfterA => event' = EVT_MENU_TOGGLE]_vars

(* C1: when A is pressed first, B later, both stay held, and no            *)
(* menu-toggle has fired since the two buttons were last up together (the  *)
(* compound-fired flag is clear), the tick on which B's held time first    *)
(* reaches 500 ms emits menu-toggle and not B-hold; with the flag set it   *)
(* emits B-hold.                                                           *)
C1_MenuToggleOnBHold ==
    [][BReachesHoldAfterA =>
          event' = (IF coord.events.compound_fired
                    THEN EVT_B_HOLD ELSE EVT_MENU_TOGGLE)]_vars

(* A menu-toggle has just been emitted on B's hold with A pressed first.   *)
C1_Witness ==
    /\ event = EVT_MENU_TOGGLE
    /\ coord.events.a_pressed /\ coord.events.b_hold
    /\ coord.events.a_press_time < coord.events.b_press_time
    /\ Sub32(now, coord.events.b_press_time) = EP_HOLD_THRESHOLD_MS


(* The state reached by the tick on which A is released, for a press that  *)
(* lasted more than the hold threshold with B up from the tick before the  *)
(* press to the last tick on which A was down.                             *)
SoloALongPressReleased ==
    /\ gesture.phase = "released"
    /\ ~gesture.b_before /\ ~gesture.b_during
    /\ Sub32(now, coord.events.a_press_time) > EP_HOLD_THRESHOLD_MS

(* C2 as stated: a solo press of A held past 500 ms and then released      *)
(* emits exactly A-press followed by mode-next.                            *)
C2_AsStated ==
    SoloALongPressReleased => gesture.log = << EVT_A_PRESS, EVT_MODE_NEXT >>

(* C2: a solo press of A held past 500 ms and then released, B being up    *)
(* from the tick before the press until the release, emits exactly         *)
(* A-press, then A-hold, then mode-next (no A-tap, no A-release).          *)
C2_PressHoldModeNext ==
    SoloALongPressReleased =>
        gesture.log = << EVT_A_PRESS, EVT_A_HOLD, EVT_MODE_NEXT >>

(* A solo long press of A has just been released and ended in mode-next.   *)
C2_Witness ==
    /\ SoloALongPressReleased
    /\ event = EVT_MODE_NEXT

AReleased == coord.events.a_last /\ ~coord'.events.a_pressed

BReleased == coord.events.b_last /\ ~coord'.events.b_pressed

(* Time from the press to this step's tick. *)
APressLength == Sub32(now', coord.events.a_press_time)

BPressLength == Sub32(now', coord.events.b_press_time)

(* Button A produces an event of its own on this step: an edge, or its     *)
(* hold latching with B up.                                                *)
AEventOnTick ==
    \/ coord.events.a_last # coord'.events.a_pressed
    \/ /\ coord'.events.a_pressed /\ ~coord.events.a_hold
       /\ HoldReached(now', coord.events.a_press_time)
       /\ ~coord'.events.b_pressed

C7_CompoundClearedOnRelease ==
    [][AReleased =>
          coord'.events.compound_fired =
              (coord'.events.b_pressed /\ coord.events.compound_fired)]_vars

(* A has just been released with B still pressed after a menu-toggle, and  *)
(* the compound-fired flag is still set.                                   *)
C7_Witness ==
    /\ gesture.phase = "released"
    /\ coord.events.b_pressed
    /\ coord.events.compound_fired

(* The dispatches of the last tick that carry an input event. *)
InputOffers == { i \in 1..Len(offers) : offers[i].event # EVT_TIMEOUT }

(* C8: whatever the buttons and the CV input did on a tick, the            *)
(* coordinator routes at most one input event on it, the one event the     *)
(* event processor returned: it is dispatched once to the top FSM and at   *)
(* most once below it, and nothing is dispatched when there is no event.   *)
C8_OneEventPerTick ==
    /\ \A i \in InputOffers : offers[i].event = event
    /\ event = EVT_NONE => InputOffers = {}
    /\ Cardinality({ i \in InputOffers : offers[i].fsm = "top_fsm" }) <= 1
    /\ Cardinality({ i \in InputOffers : offers[i].fsm # "top_fsm" }) <= 1

(* On the first tick both buttons went down and the CV input rose          *)
(* together; A-press alone was emitted and routed.                         *)
C8_Witness ==
    /\ ticks = 1
    /\ coord.events.a_pressed /\ coord.events.b_pressed
    /\ coord.events.cv_state
    /\ event = EVT_A_PRESS
    /\ Len(offers) = 2

-----------------------------------------------------------------------------
(* Properties of the coordinator *)

(* C3: while the top state is MENU, the tick on which a solo hold of A     *)
(* reaches 500 ms (the tick that emits A-hold) returns the top state to    *)
(* PERFORM, without waiting for the release.                               *)
C3_MenuExitsOnAHold ==
    [][(coordinator_get_top_state(coord) = TOP_MENU /\ event' = EVT_A_HOLD)
          => coordinator_get_top_state(coord') = TOP_PERFORM]_vars

(* C4: the release of A that follows a solo hold which fired in MENU finds *)
(* the menu left and does not advance the mode.                            *)
C4_ReleaseAfterExitKeepsMode ==
    [][(gesture.hold_in_menu /\ gesture.phase = "down"
          /\ gesture'.phase = "released")
          => /\ coordinator_get_top_state(coord') = TOP_PERFORM
             /\ coordinator_get_mode(coord') = coordinator_get_mode(coord)]_vars

(* Mode reached from `mode` by n applications of action_next_mode. *)
RECURSIVE ModeAfter(_, _)
ModeAfter(mode, n) == IF n = 0 THEN mode ELSE NextMode(ModeAfter(mode, n - 1))

(* C9: a mode-next handled in PERFORM sets the mode to (mode + 1) mod 5,   *)
(* and five of them in a row lead back to the mode they started from.      *)
C9_ModeNextAdvancesMod5 ==
    [][(coordinator_get_top_state(coord) = TOP_PERFORM
          /\ event' = EVT_MODE_NEXT)
          => /\ coordinator_get_mode(coord') =
                    (coordinator_get_mode(coord) + 1) % 5
             /\ ModeAfter(coordinator_get_mode(coord'), 4) =
                    coordinator_get_mode(coord)]_vars

(* A device booted in the last mode has handled a mode-next and wrapped to *)
(* the first mode.                                                         *)
C9_Witness ==
    /\ event = EVT_MODE_NEXT
    /\ settings.mode = MODE_CYCLE
    /\ coordinator_get_mode(coord) = MODE_GATE
    /\ coordinator_get_top_state(coord) = TOP_PERFORM

(* C10: on a tick entered in MENU on which no event occurs, the top state  *)
(* returns to PERFORM exactly when tick - last-activity is at least        *)
(* 60000 ms, and it does so by exit-menu: the timeout is dispatched to the *)
(* top FSM, the current mode is written to the settings and the settings   *)
(* are saved.                                                              *)
C10_MenuTimeout ==
    [][(coordinator_get_top_state(coord) = TOP_MENU /\ event' = EVT_NONE)
          => IF Sub32(now', coord.last_activity) >= 60000
             THEN /\ coordinator_get_top_state(coord') = TOP_PERFORM
                  /\ offers' = << [fsm |-> "top_fsm", event |-> EVT_TIMEOUT] >>
                  /\ settings' =
                        [settings EXCEPT !.mode = coordinator_get_mode(coord)]
                  /\ eeprom' = AppInitSaveSettings(eeprom, settings')
             ELSE /\ coordinator_get_top_state(coord') = TOP_MENU
                  /\ offers' = << >>
                  /\ eeprom' = eeprom]_vars

(* The menu has just been left by the timeout, 60000 ms after the last     *)
(* activity.                                                               *)
C10_Witness ==
    /\ event = EVT_NONE
    /\ offers = << [fsm |-> "top_fsm", event |-> EVT_TIMEOUT] >>
    /\ coordinator_get_top_state(coord) = TOP_PERFORM
    /\ Sub32(now, coord.last_activity) = MENU_TIMEOUT_MS

(* The synthetic timeout was dispatched on the last tick. *)
TimeoutOffered ==
    \E i \in 1..Len(offers) : offers[i].event = EVT_TIMEOUT

(* C11: every event produced on a tick entered in MENU sets last-activity  *)
(* to that tick, and the timeout is dispatched only on a tick without an   *)
(* event on which at least 60000 ms have passed since last-activity.       *)
C11_ActivityResetsTimeout ==
    [][/\ (coordinator_get_top_state(coord) = TOP_MENU /\ event' # EVT_NONE)
            => (coord'.last_activity = now' /\ ~TimeoutOffered')
       /\ TimeoutOffered'
            => /\ coordinator_get_top_state(coord) = TOP_MENU
               /\ event' = EVT_NONE
               /\ Sub32(now', coord.last_activity) >= 60000]_vars

(* A CV edge seen in MENU, after the tick that entered it, has reset       *)
(* last-activity.                                                          *)
C11_Witness ==
    /\ coordinator_get_top_state(coord) = TOP_MENU
    /\ event \in CvEvents
    /\ coord.last_activity = now
    /\ coord.menu_enter_time # now

(* C12: on a tick that ends in PERFORM the mode handler's input is         *)
(* cv_level OR (B pressed AND A not pressed), with A pressed OR-ed in      *)
(* exactly when the mode is GATE and gate-A-mode is manual.                *)
C12_PerformInput ==
    coordinator_get_top_state(coord) = TOP_PERFORM =>
        input_state =
            ( \/ coord.cv_input.current_state
              \/ (coord.events.b_pressed /\ ~coord.events.a_pressed)
              \/ /\ coordinator_get_mode(coord) = MODE_GATE
                 /\ settings.gate_a_mode = GATE_A_MODE_MANUAL
                 /\ coord.events.a_pressed )

(* In PERFORM, GATE mode with gate-A-mode manual, A alone is pressed and   *)
(* drives the input.                                                       *)
C12_Witness ==
    /\ coordinator_get_top_state(coord) = TOP_PERFORM
    /\ coordinator_get_mode(coord) = MODE_GATE
    /\ settings.gate_a_mode = GATE_A_MODE_MANUAL
    /\ coord.events.a_pressed /\ ~coord.events.b_pressed
    /\ ~coord.cv_input.current_state
    /\ input_state

(* C13: on a tick that ends in MENU the mode handler's input is cv_level,  *)
(* whatever the buttons do.                                                *)
C13_MenuInput ==
    coordinator_get_top_state(coord) = TOP_MENU =>
        input_state = coord.cv_input.current_state

(* In MENU with B alone pressed and the CV input low, the input is low.    *)
C13_Witness ==
    /\ coordinator_get_top_state(coord) = TOP_MENU
    /\ coord.events.b_pressed /\ ~coord.events.a_pressed
    /\ ~coord.cv_input.current_state
    /\ ~input_state

-----------------------------------------------------------------------------
(* Properties of a mode change *)

(* The tick just taken changed the mode. *)
ModeChanged == coordinator_get_mode(coord) # prior.mode

InLog(ev) == \E i \in 1..Len(gesture.log) : gesture.log[i] = ev

(* C15: the menu-toggle gesture followed by the release of the two buttons *)
(* in either order never changes the mode.  No tick of a press of A during *)
(* which menu-toggle fired changes the mode, its release tick included     *)
(* (whether B is still down then or was released before), and no tick on   *)
(* which A stays up changes it (B released after A).                       *)
C15_MenuGestureKeepsMode ==
    (InLog(EVT_MENU_TOGGLE) \/ gesture.phase = "up") => ~ModeChanged

(* The gesture was made, B was released and now A is released, on a tick   *)
(* on which the device is back in PERFORM (the menu timed out or was left  *)
(* by a second gesture), where a mode-next would change the mode.  The     *)
(* mode is the one before.                                                 *)
C15_Witness ==
    /\ gesture.phase = "released"
    /\ InLog(EVT_MENU_TOGGLE)
    /\ InLog(EVT_B_RELEASE)
    /\ coordinator_get_top_state(coord) = TOP_PERFORM
    /\ event = EVT_A_RELEASE
    /\ ~ModeChanged

-----------------------------------------------------------------------------
(* Properties of the menu *)

(* Press, tap, release, B-hold and CV events. *)
MenuInertEvents ==
    { EVT_A_PRESS, EVT_B_PRESS, EVT_A_TAP, EVT_B_TAP, EVT_A_RELEASE,
      EVT_B_RELEASE, EVT_B_HOLD, EVT_CV_RISE, EVT_CV_FALL }

(* C16: a tick that starts in MENU and carries a press, tap, release,      *)
(* B-hold or CV event ends in MENU.                                        *)
C16_MenuStaysOnInertEvents ==
    (prior.top = TOP_MENU /\ event \in MenuInertEvents)
        => coordinator_get_top_state(coord) = TOP_MENU

(* In MENU, with A up, B alone reaches the hold threshold: the tick        *)
(* carries B-hold and ends in MENU.                                        *)
C16_Witness ==
    /\ prior.top = TOP_MENU
    /\ event = EVT_B_HOLD
    /\ ~coord.events.a_pressed
    /\ coord.events.b_hold
    /\ coordinator_get_top_state(coord) = TOP_MENU

(* The value count of a settings field: the limit its byte is validated    *)
(* against when the record is loaded.                                      *)
FieldCount(field) ==
    LET i == CHOOSE j \in 1..APP_SETTINGS_SIZE : SettingsFields[j] = field
    IN SETTINGS_LIMITS[i]

(* The settings after n consecutive runs of the cycle-value action. *)
RECURSIVE CycleValueTimes(_, _, _)
CycleValueTimes(m, t, n) ==
    IF n = 0 THEN m.settings
    ELSE CycleValueTimes(action_cycle_value(m, t), t, n - 1)

(* The number of B-taps said to restore the field of a page: the field's   *)
(* value count, one for a page that owns no field.                         *)
TapsToRestore(page) ==
    IF PageField(page).field = "" THEN 1
    ELSE FieldCount(PageField(page).field)

(* C17: a tick that starts in MENU and carries B-tap advances the settings *)
(* field owned by the page to (value + 1) modulo the field's value count   *)
(* and leaves every other settings field unchanged; and in MENU, as many   *)
(* consecutive runs of cycle-value as the page's field has values give     *)
(* back the settings they started from.                                    *)
C17_BTapCyclesPageField ==
    /\ (prior.top = TOP_MENU /\ event = EVT_B_TAP)
          => \A i \in 1..APP_SETTINGS_SIZE :
                LET field == SettingsFields[i] IN
                settings[field] =
                    IF field = PageField(prior.page).field
                    THEN (prior.settings[field] + 1) % FieldCount(field)
                    ELSE prior.settings[field]
    /\ coordinator_get_top_state(coord) = TOP_MENU
          => CycleValueTimes([ coord |-> coord, settings |-> settings,
                               eeprom |-> eeprom, offers |-> << >> ],
                             now, TapsToRestore(coordinator_get_page(coord)))
               = settings

(* A B-tap on the cycle page with the tempo at its last value: the tempo   *)
(* wraps to the first value.                                               *)
C17_Witness ==
    /\ prior.top = TOP_MENU
    /\ event = EVT_B_TAP
    /\ prior.page = PAGE_CYCLE_PATTERN
    /\ prior.settings.cycle_tempo_idx = CYCLE_TEMPO_COUNT - 1
    /\ settings.cycle_tempo_idx = 0
    /\ settings.trigger_pulse_idx = TRIGGER_PULSE_COUNT - 1

(* The tick just taken left the menu. *)
MenuExited ==
    prior.top = TOP_MENU /\ coordinator_get_top_state(coord) = TOP_PERFORM

(* The eight settings bytes held by the store. *)
StoredBytes ==
    [ i \in 1..APP_SETTINGS_SIZE |-> eeprom[EEPROM_SETTINGS_ADDR + i - 1] ]

-----------------------------------------------------------------------------
(* Properties of the settings store *)

(* The mode the device starts in when it is powered up on the store as it  *)
(* is now.                                                                 *)
ModeAfterPowerCycle == coordinator_get_mode(Startup(eeprom, 0).coord)

(* C19: after a tick on which the user changed the mode, a power cycle     *)
(* with the store intact starts the device in the mode just selected.      *)
C19_ModeSurvivesPowerCycle ==
    ModeChanged => ModeAfterPowerCycle = coordinator_get_mode(coord)

(* C20: a tick of the loop that does not leave the menu, and so does not   *)
(* run the exit-menu action, leaves the store as it was, whatever event,   *)
(* mode change or setting change it carries.                               *)
C20_StoreWrittenOnlyOnExit ==
    ~MenuExited => eeprom = prior.eeprom

(* A B-tap in the menu changed a setting and the store is as it was: it    *)
(* still holds the record, or the erased bytes, of before.                 *)
C20_Witness ==
    /\ prior.top = TOP_MENU
    /\ event = EVT_B_TAP
    /\ settings # prior.settings
    /\ eeprom = prior.eeprom
    /\ eeprom \in BootImages

(* The last operation run, and the one before it. *)
LastOp == IF Len(ops) >= 1 THEN ops[Len(ops)] ELSE ""

OpBefore == IF Len(ops) >= 2 THEN ops[Len(ops) - 1] ELSE ""

(* C21: a load that directly follows a save returns the result code ok and *)
(* a record equal, field for field, to the record that was saved.          *)
C21_SaveThenLoad ==
    (LastOp = "app_init_run" /\ OpBefore = "app_init_save_settings")
        => /\ init_result = APP_INIT_OK
           /\ \A i \in 1..APP_SETTINGS_SIZE :
                 settings[SettingsFields[i]] = prior.settings[SettingsFields[i]]

(* The record of every field at its last value was saved over a store      *)
(* whose checksum had been overwritten, and loaded back.                   *)
C21_Witness ==
    /\ ops = << "eeprom_write_byte", "app_init_save_settings", "app_init_run" >>
    /\ init_result = APP_INIT_OK
    /\ settings.cycle_tempo_idx = CYCLE_TEMPO_COUNT - 1
    /\ settings.reserved = 255

(* The eight settings bytes held by a store, first to last. *)
RecordBytes(ee) ==
    [ i \in 1..APP_SETTINGS_SIZE |-> ee[EEPROM_SETTINGS_ADDR + i - 1] ]

(* The per-field upper bounds of the first seven fields. *)
FieldBounds ==
    << MODE_COUNT, TRIGGER_PULSE_COUNT, TRIGGER_EDGE_COUNT,
       DIVIDE_DIVISOR_COUNT, CYCLE_TEMPO_COUNT, TOGGLE_EDGE_COUNT,
       GATE_A_MODE_COUNT >>

MagicBad(ee) == ee[0] + 256 * ee[1] # 18251

SchemaBad(ee) == ee[2] # SETTINGS_SCHEMA_VERSION

ChecksumBad(ee) == ee[16] # XorFold(RecordBytes(ee), APP_SETTINGS_SIZE)

FieldBad(ee) == \E i \in 1..7 : ~(RecordBytes(ee)[i] < FieldBounds[i])

(* C22: a load from a store whose magic is not 0x474B, or whose schema     *)
(* byte is not the current version, or whose checksum differs from the XOR *)
(* of the eight settings bytes, or one of whose first seven fields is not  *)
(* below its bound, returns ok-defaults and the all-zero defaults record.  *)
C22_InvalidStoreGivesDefaults ==
    ( /\ LastOp = "app_init_run"
      /\ MagicBad(eeprom) \/ SchemaBad(eeprom) \/ ChecksumBad(eeprom)
            \/ FieldBad(eeprom) )
        => /\ init_result = APP_INIT_OK_DEFAULTS
           /\ \A i \in 1..APP_SETTINGS_SIZE : settings[SettingsFields[i]] = 0

(* A load from a store with the right magic, schema and checksum whose     *)
(* mode field is out of range.                                             *)
C22_Witness ==
    /\ LastOp = "app_init_run"
    /\ ~MagicBad(eeprom) /\ ~SchemaBad(eeprom) /\ ~ChecksumBad(eeprom)
    /\ eeprom[EEPROM_SETTINGS_ADDR] >= MODE_COUNT
    /\ init_result = APP_INIT_OK_DEFAULTS
    /\ settings.mode = 0

(* C23: after load-or-default at startup and after every menu value change *)
(* that follows, each settings field except reserved is strictly less than *)
(* its upper bound.                                                        *)
C23_SettingsInRange ==
    \A i \in 1..7 : settings[SettingsFields[i]] < FieldBounds[i]

(* The device was powered up on a store whose pulse index is out of range  *)
(* and a B-tap on the pulse page has since changed the index.              *)
C23_Witness ==
    /\ eeprom = ForeignImage
    /\ event = EVT_B_TAP
    /\ prior.page = PAGE_TRIGGER_PULSE_LEN
    /\ settings.trigger_pulse_idx = 1

-----------------------------------------------------------------------------
(* Properties of the factory-reset check *)

(* Timer advance since the hold began. *)
ResetElapsed == Sub32(now, reset.start_time)

-----------------------------------------------------------------------------
(* Properties of the CV input *)

(* The level before the i-th sample of the run. *)
CvLevelBefore(i) == IF i = 1 THEN FALSE ELSE cv_in.levels[i - 1]

HysteresisLevels == <<FALSE, FALSE, FALSE, TRUE, TRUE, TRUE, TRUE, FALSE, FALSE>>

(* C26: the level goes from low to high only on a sample strictly greater  *)
(* than the high threshold and from high to low only on a sample strictly  *)
(* less than the low threshold, and keeps its value on every other sample; *)
(* with thresholds 128/77 and an initial low level the samples 100, 120,   *)
(* 128, 129, 80, 78, 77, 76, 128 give low, low, low, high, high, high,     *)
(* high, low, low.                                                         *)
C26_Hysteresis ==
    /\ Len(cv_in.levels) = Len(cv_in.samples)
    /\ \A i \in 1..Len(cv_in.samples) :
          LET before == CvLevelBefore(i)
              after == cv_in.levels[i]
              sample == cv_in.samples[i]
          IN /\ (~before /\ after) => sample > cv_in.input.high_threshold
             /\ (before /\ ~after) => sample < cv_in.input.low_threshold
             /\ (~before /\ ~(sample > cv_in.input.high_threshold)) => ~after
             /\ (before /\ ~(sample < cv_in.input.low_threshold)) => after
    /\ Len(cv_in.samples) > 0 =>
          cv_in.input.current_state = cv_in.levels[Len(cv_in.levels)]
    /\ ( /\ cv_in.input.high_threshold = 128
         /\ cv_in.input.low_threshold = 77
         /\ IsPrefix(cv_in.samples, HysteresisSamples) )
          => cv_in.levels = SubSeq(HysteresisLevels, 1, Len(cv_in.samples))

(* The example sequence fed to its end. *)
C26_Witness ==
    /\ cv_in.input.high_threshold = 128
    /\ cv_in.input.low_threshold = 77
    /\ cv_in.samples = HysteresisSamples
    /\ cv_in.levels = HysteresisLevels

-----------------------------------------------------------------------------
(* Properties of the debounced button *)

(* Time from the last rising (falling) edge before this update, or from    *)
(* the zero of the timer when there was none, to this update.              *)
SinceLastRise == Sub32(now, button.before.last_rise_time)

SinceLastFall == Sub32(now, button.before.last_fall_time)

(* C27 as stated: a rising edge is asserted on an update if and only if    *)
(* the raw sample is pressed, the debounced-pressed bit of the update      *)
(* before is clear and at least 5 ms have elapsed since the previous       *)
(* rising edge; a falling edge symmetrically, with its own 5 ms guard      *)
(* measured from the previous falling edge.                                *)
C27_AsStated ==
    button.updates > 0 =>
        /\ button.btn.rise <=>
              ( /\ button.btn.raw
                /\ ~button.before.last
                /\ SinceLastRise >= EDGE_DEBOUNCE_MS )
        /\ button.btn.fall <=>
              ( /\ ~button.btn.raw
                /\ button.before.last
                /\ SinceLastFall >= EDGE_DEBOUNCE_MS )

(* C27, amended: the same with more than 5 ms, that is at least 6 ms,      *)
(* elapsed since the previous edge of the same direction.                  *)
C27_EdgeIffGuardPassed ==
    button.updates > 0 =>
        /\ button.btn.rise <=>
              ( /\ button.btn.raw
                /\ ~button.before.last
                /\ SinceLastRise > EDGE_DEBOUNCE_MS )
        /\ button.btn.fall <=>
              ( /\ ~button.btn.raw
                /\ button.before.last
                /\ SinceLastFall > EDGE_DEBOUNCE_MS )
        /\ button.btn.last = button.btn.pressed
        /\ button.before.last = button.before.pressed

(* A falling edge asserted one millisecond after the rising edge: the      *)
(* guard of the rising edge does not hold it back.                         *)
C27_Witness ==
    /\ button.btn.fall
    /\ button.before.rise
    /\ Sub32(now, button.btn.last_rise_time) = 1

-----------------------------------------------------------------------------
(* Properties of the pulse output *)

(* C28: a rising input edge at tick T makes the output high on ticks T     *)
(* through T + D - 1 and low at tick T + D, whether or not the input falls *)
(* or rises again before T + D; D is the pulse duration and T the tick of  *)
(* the edge that began the pulse.                                          *)
C28_PulseNotExtended ==
    cv_output.edge_seen =>
        /\ Sub32(now, cv_output.pulse_edge) < PULSE_DURATION_MS
              => cv_output.out.state
        /\ Sub32(now, cv_output.pulse_edge) = PULSE_DURATION_MS
              => ~cv_output.out.state

-----------------------------------------------------------------------------
(* Properties of the FSM engine *)

(* The rows of the machine's table that match the state held before the    *)
(* last operation and the event given to it.                               *)
MachineHits ==
    { i \in 1..Len(MachineTransitions(machine.table)) :
        LET row == MachineTransitions(machine.table)[i]
        IN /\ row.event = machine.event
           /\ row.from_state \in {machine.before.current_state, FSM_ANY_STATE} }

MachineFirstHit == CHOOSE i \in MachineHits : \A j \in MachineHits : i <= j

HasCallback(kind, state_id) ==
    \E i \in 1..Len(MachineStates) :
        MachineStates[i].id = state_id /\ MachineStates[i][kind]

(* The names of the callbacks the last operation ran, in order, each with  *)
(* the current state it found.                                             *)
CallsMade ==
    [ i \in 1..Len(machine.calls) |->
        << IF machine.calls[i].call = "action" THEN machine.calls[i].action
           ELSE machine.calls[i].call,
           machine.calls[i].seen >> ]

(* What process(event) is to do with the first matching row: the callbacks *)
(* that exist, in the order exit, action, enter, the action and the exit   *)
(* finding the old state and the enter the new one.                        *)
ProcessAsDescribed ==
    IF MachineHits = {}
    THEN /\ machine.fsm = machine.before
         /\ machine.calls = << >>
         /\ ~machine.changed
    ELSE LET row == MachineTransitions(machine.table)[MachineFirstHit]
             old == machine.before.current_state
             act == IF row.action = NoAction THEN << >>
                    ELSE << <<row.action, old>> >>
         IN IF row.to_state = FSM_NO_TRANSITION
            THEN /\ machine.fsm = machine.before
                 /\ CallsMade = act
                 /\ ~machine.changed
            ELSE /\ machine.fsm.current_state = row.to_state
                 /\ machine.fsm.active = machine.before.active
                 /\ CallsMade =
                        (IF HasCallback("on_exit", old)
                         THEN << <<"on_exit", old>> >> ELSE << >>)
                        \o act
                        \o (IF HasCallback("on_enter", row.to_state)
                            THEN << <<"on_enter", row.to_state>> >> ELSE << >>)
                 /\ machine.changed

(* C29 as stated: process(event) acts on the first row whose from-state is *)
(* the current state or the wildcard and whose event matches: a            *)
(* NO_TRANSITION row runs only its action and returns false with the state *)
(* unchanged; any other row runs the current state's on-exit, the row's    *)
(* action, sets the current state, runs the new state's on-enter and       *)
(* returns true; with no matching row nothing changes and it returns       *)
(* false.                                                                  *)
C29_AsStated ==
    machine.op = "fsm_process_event" => ProcessAsDescribed

(* C29, amended: the same on an FSM that is active (started and not        *)
(* stopped); on an FSM that is not active process(event) changes nothing,  *)
(* runs nothing and returns false.                                         *)
C29_ProcessOnActiveFsm ==
    machine.op = "fsm_process_event" =>
        IF machine.before.active
        THEN ProcessAsDescribed
        ELSE /\ machine.fsm = machine.before
             /\ machine.calls = << >>
             /\ ~machine.changed

(* A transition that ran all three callbacks, taken on a row that shadows  *)
(* a later matching row.                                                   *)
C29_Witness ==
    /\ machine.op = "fsm_process_event"
    /\ machine.before.active
    /\ machine.changed
    /\ Len(machine.calls) = 3
    /\ Cardinality(MachineHits) > 1

-----------------------------------------------------------------------------
(* Properties of the timer's wraparound *)

(* C30: every timing decision of the core (hold detection, the A-before-B  *)
(* test of the compound gesture, menu timeout) comes out the same when the *)
(* millisecond counter wraps between the timestamps involved as it does    *)
(* without the wrap: the event of the tick and the top state are those of  *)
(* the device that is given the same inputs far from the wrap.             *)
C30_WrapMakesNoDifference ==
    /\ event = unwrapped.event
    /\ coordinator_get_top_state(coord)
          = coordinator_get_top_state(unwrapped.coord)
    /\ coord.events.a_hold = unwrapped.coord.events.a_hold
    /\ coord.events.b_hold = unwrapped.coord.events.b_hold

-----------------------------------------------------------------------------
(* Properties of the main loop and of the coordinator's interface *)

(* C31: every iteration of the tick loop feeds the watchdog at least once, *)
(* and while the loop iterates once per millisecond the enabled watchdog,  *)
(* whose timeout is 250 ms, never fires.                                   *)
C31_WatchdogFedEveryIteration ==
    /\ ticks > 0 => wdt.feeds >= 1
    /\ wdt.hw.enabled
    /\ ~wdt.hw.fired
    /\ Sub32(now, wdt.hw.last_reset_time) < SIM_WDT_TIMEOUT_MS

(* The loop has run for longer than the watchdog's timeout. *)
C31_Witness ==
    /\ ticks > SIM_WDT_TIMEOUT_MS
    /\ now > SIM_WDT_TIMEOUT_MS
    /\ wdt.hw.enabled
    /\ wdt.feeds >= 1

(* The dispatches of the last tick to the mode FSM and the menu FSM. *)
LowerOffers == SelectSeq(offers, LAMBDA o : o.fsm # "top_fsm")

(* The event of the last tick made the top FSM change state. *)
TopChangedByEvent ==
    /\ event # EVT_NONE
    /\ coordinator_get_top_state(coord) # prior.top
    /\ \A i \in 1..Len(offers) : offers[i].event # EVT_TIMEOUT

(* C32: an event that makes the top FSM change state is dispatched to      *)
(* neither the mode FSM nor the menu FSM on that tick; any other event is  *)
(* dispatched to exactly one of them, the menu FSM if the top state before *)
(* the event was MENU and the mode FSM if it was PERFORM.                  *)
C32_RoutedByPriorTopState ==
    (ticks > 0 /\ event # EVT_NONE) =>
        LowerOffers =
            IF TopChangedByEvent THEN << >>
            ELSE << [ fsm |-> IF prior.top = TOP_MENU THEN "menu_fsm"
                              ELSE "mode_fsm",
                      event |-> event ] >>

(* A tap of A in MENU went to the menu FSM, which turned the page. *)
C32_Witness ==
    /\ prior.top = TOP_MENU
    /\ event = EVT_A_TAP
    /\ LowerOffers = << [ fsm |-> "menu_fsm", event |-> EVT_A_TAP ] >>
    /\ coordinator_get_page(coord) # prior.page

(* A menu-toggle in PERFORM opened the menu and went no further. *)
C32_WitnessConsumed ==
    /\ prior.top = TOP_PERFORM
    /\ TopChangedByEvent
    /\ LowerOffers = << >>

-----------------------------------------------------------------------------
(* Further properties of the event processor *)

(* C33: from one tick that samples both buttons released to the next,      *)
(* menu-toggle is emitted at most once, whatever B does in between.        *)
C33_OneToggleUntilBothReleased == gesture.toggles <= 1

(* After a menu-toggle, B was released, pressed again and has now reached  *)
(* the hold threshold a second time with A down throughout: B-hold is      *)
(* emitted and no second menu-toggle.                                      *)
C33_Witness ==
    /\ gesture.toggles = 1
    /\ gesture.phase = "down"
    /\ gesture.log = << EVT_A_PRESS, EVT_B_PRESS, EVT_MENU_TOGGLE,
                        EVT_B_RELEASE, EVT_B_PRESS, EVT_B_HOLD >>
    /\ event = EVT_B_HOLD
    /\ coord.events.a_press_time < coord.events.b_press_time

(* The A-holds emitted so far during A's current press. *)
HoldsInPress == SelectSeq(gesture.log, LAMBDA ev : ev = EVT_A_HOLD)

(* The last tick latched the hold of A's current press. *)
HoldLatchedNow ==
    /\ coord.events.a_pressed
    /\ coord.events.a_hold
    /\ ~prior.a_hold

(* C34: during one press of A, A-hold is emitted at most once; it is       *)
(* emitted on the tick that latches the hold, which is the first tick on   *)
(* which A has been down for 500 ms, and only if B is not pressed on that  *)
(* tick; a hold latched with B pressed is never reported by an A-hold.     *)
C34_HoldOncePerPress ==
    ticks > 0 =>
        /\ Len(HoldsInPress) <= 1
        /\ (event = EVT_A_HOLD) <=> (HoldLatchedNow /\ ~coord.events.b_pressed)
        /\ HoldLatchedNow => HoldReached(now, coord.events.a_press_time)
        /\ (coord.events.a_pressed /\ ~coord.events.a_hold)
               => ~HoldReached(now, coord.events.a_press_time)

(* A's hold was latched with B pressed; B has since been released and A    *)
(* is still down, past the threshold, without an A-hold in the press.      *)
C34_Witness ==
    /\ gesture.phase = "down"
    /\ coord.events.a_hold
    /\ gesture.b_during
    /\ ~coord.events.b_pressed
    /\ ~coord.events.b_last
    /\ event = EVT_NONE
    /\ Sub32(now, coord.events.a_press_time) > EP_HOLD_THRESHOLD_MS
    /\ HoldsInPress = << >>

(* What the inputs sampled by a tick did against the samples of the tick   *)
(* before: the events each input is due, none if it made no transition.    *)
ADue ==
    IF coord'.events.a_pressed /\ ~coord.events.a_pressed THEN { EVT_A_PRESS }
    ELSE IF ~coord'.events.a_pressed /\ coord.events.a_pressed
    THEN { EVT_A_TAP, EVT_A_RELEASE, EVT_MODE_NEXT }
    ELSE IF coord'.events.a_pressed /\ coord'.events.a_hold
            /\ ~coord.events.a_hold /\ ~coord'.events.b_pressed
    THEN { EVT_A_HOLD }
    ELSE {}

BDue ==
    IF coord'.events.b_pressed /\ ~coord.events.b_pressed THEN { EVT_B_PRESS }
    ELSE IF ~coord'.events.b_pressed /\ coord.events.b_pressed
    THEN { EVT_B_TAP, EVT_B_RELEASE }
    ELSE IF coord'.events.b_pressed /\ coord'.events.b_hold
            /\ ~coord.events.b_hold
    THEN { EVT_B_HOLD, EVT_MENU_TOGGLE }
    ELSE {}

CvDue ==
    IF coord'.events.cv_state /\ ~coord.events.cv_state THEN { EVT_CV_RISE }
    ELSE IF ~coord'.events.cv_state /\ coord.events.cv_state
    THEN { EVT_CV_FALL }
    ELSE {}

-----------------------------------------------------------------------------
(* Further properties of the coordinator *)

(* The dispatches of the last tick to the top FSM. *)
TopOffers == SelectSeq(offers, LAMBDA o : o.fsm = "top_fsm")

(* C36: one coordinator update dispatches to the top FSM at most once, so  *)
(* the top state changes at most once in it: the synthetic timeout is      *)
(* dispatched only on a tick that routed no input event.                   *)
C36_TopChangesOncePerUpdate ==
    ticks > 0 =>
        /\ Len(TopOffers) <= 1
        /\ event # EVT_NONE =>
               /\ TopOffers = << [ fsm |-> "top_fsm", event |-> event ] >>
               /\ ( \/ coordinator_get_top_state(coord) = prior.top
                    \/ /\ event = EVT_MENU_TOGGLE
                       /\ LowerOffers = << >> )

(* The menu was opened by the first gesture made on a device left alone    *)
(* for longer than the menu timeout: last-activity was older than the      *)
(* timeout when the tick began, and the tick ended in MENU.                *)
C36_Witness ==
    /\ ticks = 4
    /\ gesture.log = << EVT_A_PRESS, EVT_B_PRESS, EVT_MENU_TOGGLE >>
    /\ event = EVT_MENU_TOGGLE
    /\ prior.top = TOP_PERFORM
    /\ coordinator_get_top_state(coord) = TOP_MENU
    /\ now >= MENU_TIMEOUT_MS
    /\ coord.last_activity = now
    /\ TopOffers = << [ fsm |-> "top_fsm", event |-> EVT_MENU_TOGGLE ] >>

(* C37: a tick that begins with the top state MENU leaves the mode as it   *)
(* was, whatever event it handles, mode-next included; the mode changes    *)
(* only on ticks that begin in PERFORM.                                    *)
C37_ModeChangesOnlyFromPerform ==
    (ticks > 0 /\ coordinator_get_mode(coord) # prior.mode)
        => prior.top = TOP_PERFORM

(* A solo hold of A was released in MENU: mode-next went to the menu FSM   *)
(* and the mode is what it was.                                            *)
C37_Witness ==
    /\ prior.top = TOP_MENU
    /\ event = EVT_MODE_NEXT
    /\ LowerOffers = << [ fsm |-> "menu_fsm", event |-> EVT_MODE_NEXT ] >>
    /\ coordinator_get_mode(coord) = prior.mode

(* C38: g_coord is null whenever no coordinator update is executing; from *)
(* the start of an update of a coordinator to its return it points to that *)
(* coordinator, so every action an update runs finds g_coord pointing to   *)
(* the coordinator being updated.                                          *)
C38_PointerSetOnlyDuringUpdate ==
    /\ shared.pc = "idle" => shared.g_coord = NullPtr
    /\ shared.pc # "idle" =>
           (shared.who \in Coordinators /\ shared.g_coord = shared.who)
    /\ \A i \in 1..Len(shared.acted) : shared.acted[i].on = shared.who

(* An update of the second coordinator has run an action and returned,     *)
(* after the first coordinator had been updated too; g_coord is null.      *)
C38_Witness ==
    /\ shared.pc = "idle"
    /\ shared.who = "c2"
    /\ shared.acted # << >>
    /\ shared.g_coord = NullPtr
    /\ shared.devs["c1"].coord.events.a_last
    /\ coordinator_get_mode(shared.devs["c2"].coord) # MODE_GATE
    /\ coordinator_get_mode(shared.devs["c1"].coord) = MODE_GATE

-----------------------------------------------------------------------------
(* Properties of the LED feedback controller *)

-----------------------------------------------------------------------------
(* Properties of the guards of the public calls *)

(* What a call returns when it drops its arguments. *)
NeutralReturn(name) ==
    CASE name = "event_processor_update" -> EVT_NONE
      [] name \in { "event_processor_flag", "in_menu", "get_output" } -> FALSE
      [] name = "get_top_state" -> TOP_PERFORM
      [] name = "get_mode" -> MODE_GATE
      [] name = "get_page" -> PAGE_GATE_CV
      [] OTHER -> Void

(* The last call had a null context: a null object pointer, or for         *)
(* event_processor_update a null input record.                             *)
NullContext ==
    \/ api.call.ctx = NullPtr
    \/ api.call.name = "event_processor_update" /\ api.call.arg = NullInput

(* The last call took a mode ordinal and was given one outside the         *)
(* enumeration.                                                            *)
BadOrdinal(name) ==
    /\ api.call.name = name
    /\ api.call.arg >= MODE_COUNT

Dropped ==
    /\ api.objs = api.before
    /\ api.ret = NeutralReturn(api.call.name)

====
